---- MODULE Spec2Model ----
(***************************************************************************)
(* A model of the legatus-agent relevance pipeline:                        *)
(*   scout.py       run_scout_async and the per-source fetchers            *)
(*   vigil.py       filter_articles                                        *)
(*   archivum.py    add_articles_to_archive, filter_new_articles           *)
(*   speculator.py  run_speculator_async and _analyze_single_article       *)
(*   legatus.py     legatus_main                                           *)
(* Each component has its own group of variables and its own               *)
(* specification; a specification leaves the other groups untouched.       *)
(***************************************************************************)
EXTENDS Integers, Sequences, FiniteSets, TLC

\* ------------------------------------------------------------------ bounds
MaxBatch == 3        \* longest batch handed to run_speculator_async
MaxLimit == 2        \* largest configured concurrency_limit
MaxArticles == 3     \* longest list handed to filter_articles
MaxRecords == 2      \* longest list handed to the archive functions
MaxClock == 2        \* latest CURRENT_TIMESTAMP
MaxSources == 3      \* most sources configured in data_sources
MaxRuns == 2         \* runs of legatus_main over one database
MaxFound == 2        \* most articles the Scout finds in one run
MaxPieces == 4       \* most pieces of text in a raw response
MaxCallers == 2      \* coroutines that call should_verify_ssl_for_url
MaxRequests == 5     \* requests to _get_embedding_model
MaxParts == 3        \* most tags and runs of text in the content of an entry

\* ------------------------------------------------------------------ state
VARIABLES
    \* speculator.py
    articles,           \* the batch given to run_speculator_async
    concurrency_limit,  \* config.speculator_settings.concurrency_limit
    semaphore,          \* free slots of asyncio.Semaphore(concurrency_limit)
    task,               \* position of each _analyze_single_article coroutine
    fetched,            \* what the page fetch of each item did
    response,           \* what ai_chain.ainvoke did for each item
    final_analyses,     \* the list run_speculator_async returns
    run_pc,             \* "gather" | "returned" | "raised"
    \* vigil.py
    v_articles,         \* the list given to filter_articles (its dicts are mutated in place)
    cosine_scores,      \* util.cos_sim(...)[0]: one similarity per article
    similarity_threshold, \* config.analysis_rules.vigil_similarity_threshold
    model_cache,        \* the module global _model_cache
    v_result,           \* the list filter_articles returned
    v_pc,               \* "call" | "empty" | "no_embedding" | "load_failed" | "normal"
    \* archivum.py
    store,              \* the rows of table articles
    now,                \* CURRENT_TIMESTAMP
    analysis_results,   \* the batch given to add_articles_to_archive
    candidates,         \* the list given to filter_new_articles
    a_last,             \* the last call: operation, storage outcome, how it ended, result
    a_before,           \* the rows before the last call
    add_returned,       \* add_articles_to_archive(analysis_results) has returned
    add_written,        \* ... and its insert was committed
    \* scout.py
    data_sources,       \* the configured sources, rss_feeds before github_releases
    sc_outcome,         \* per source: "pending", or what its fetch did
    sc_results,         \* per source: the list its fetcher returned
    all_articles,       \* the list run_scout_async returns
    sc_pc,              \* "gather" | "returned"
    \* legatus.py
    database,           \* rows of the articles table at paths.database
    run,                \* which run of legatus_main this is
    p_pc,               \* the stage legatus_main is about to execute
    ai_chain,           \* whether initialize_ai_chain returned a chain
    found_articles,     \* Stage 3 result
    relevant_articles,  \* Stage 4 result
    new_relevant_articles, \* Stage 5 result
    analyses,           \* legatus_main's final_analyses
    reads_ok,           \* every Stage 5 read so far succeeded
    read_ok,            \* this run's Stage 5 read succeeded
    submitted_now,      \* links handed to run_speculator in this run
    submitted_earlier,  \* links handed to run_speculator in earlier runs
    recorded_earlier,   \* those of them the table held when their run ended
    write_failed,       \* this run's Stage 8 write met a storage error
    accepted_links,     \* links of the items answered is_relevant true so far
    \* speculator.py, lines 106-125 for one item
    raw_response,       \* what ai_chain.ainvoke returns, as pieces of text
    an_result,          \* what _analyze_single_article returns
    an_pc,              \* "invoke" | "raw" | "accepted" | "discarded" | "error"
    \* utils.py
    secure_ssl_context, \* the module global _secure_ssl_context
    contexts_built,     \* how often ssl.create_default_context has run
    domains_to_skip,    \* config.security.skip_ssl_verify
    ssl_calls,          \* per caller: its url, its position, its result
    loop_owner,         \* the caller whose synchronous code is running, or 0
    \* vigil.py, _get_embedding_model called again and again
    model_requests,     \* how many requests have been made
    models_built,       \* how many SentenceTransformer objects were constructed
    last_request,       \* the latest request and what it did
    prev_request,       \* the request before it
    \* _extract_summary: the feed entry, the summary returned for it, position
    feed_entry, summary_text, ex_pc

specVars == <<articles, concurrency_limit, semaphore, task, fetched, response,
              final_analyses, run_pc>>

vigilVars == <<v_articles, cosine_scores, similarity_threshold, model_cache,
               v_result, v_pc>>

archVars == <<store, now, analysis_results, candidates, a_last, a_before,
              add_returned, add_written>>

scoutVars == <<data_sources, sc_outcome, sc_results, all_articles, sc_pc>>

pipeVars == <<database, run, p_pc, ai_chain, found_articles, relevant_articles,
              new_relevant_articles, analyses, reads_ok, read_ok, submitted_now,
              submitted_earlier, recorded_earlier, write_failed,
              accepted_links>>

analyseVars == <<raw_response, an_result, an_pc>>

sslVars == <<secure_ssl_context, contexts_built, domains_to_skip, ssl_calls, loop_owner>>

cacheVars == <<model_requests, models_built, last_request, prev_request>>

summaryVars == <<feed_entry, summary_text, ex_pc>>

vars == <<specVars, vigilVars, archVars, scoutVars, pipeVars, analyseVars, sslVars, cacheVars, summaryVars>>

\* What a step of one component leaves alone.  A request to the model cache
\* writes model_cache, one of the Relevance Filter's variables; the start of
\* Stage 6 writes the Deep Analysis Engine's variables.
SpecFrame  == UNCHANGED <<vigilVars, archVars, scoutVars, pipeVars, analyseVars, sslVars, cacheVars, summaryVars>>
VigilFrame == UNCHANGED <<specVars, archVars, scoutVars, pipeVars, analyseVars, sslVars, cacheVars, summaryVars>>
ArchFrame  == UNCHANGED <<specVars, vigilVars, scoutVars, pipeVars, analyseVars, sslVars, cacheVars, summaryVars>>
ScoutFrame == UNCHANGED <<specVars, vigilVars, archVars, pipeVars, analyseVars, sslVars, cacheVars, summaryVars>>
PipeFrame  == UNCHANGED <<specVars, vigilVars, archVars, scoutVars, analyseVars, sslVars, cacheVars, summaryVars>>
AnalyseFrame == UNCHANGED <<specVars, vigilVars, archVars, scoutVars, pipeVars, sslVars, cacheVars, summaryVars>>
SslFrame == UNCHANGED <<specVars, vigilVars, archVars, scoutVars, pipeVars, analyseVars, cacheVars, summaryVars>>
CacheFrame == UNCHANGED <<specVars, archVars, scoutVars, pipeVars, analyseVars, sslVars, summaryVars>>
StageFrame == UNCHANGED <<vigilVars, archVars, scoutVars, analyseVars, sslVars, cacheVars, summaryVars>>
SummaryFrame == UNCHANGED <<specVars, vigilVars, archVars, scoutVars, pipeVars, analyseVars, sslVars, cacheVars>>

\* ------------------------------------------------------------- data shapes
Links  == {"http://a.com", "http://b.com", "http://c.com"}

\* An Article as the Deep Analysis Engine reads it: article['link'], article['title'].
BatchArticles ==
    { [link |-> "http://a.com", title |-> "Article A"],
      [link |-> "http://b.com", title |-> "Article B"] }

\* Python's None, as a record so that it compares with dicts.
None == [none |-> TRUE]

SeqsUpTo(S, n) == UNION { [1..m -> S] : m \in 0..n }

RECURSIVE SelectSeqIdx(_, _, _)
\* The subsequence of s at the indices i (in order) for which keep[i] holds.
SelectSeqIdx(s, keep, i) ==
    IF i > Len(s) THEN <<>>
    ELSE (IF keep[i] THEN <<s[i]>> ELSE <<>>) \o SelectSeqIdx(s, keep, i + 1)

\* ===================================================== speculator.py ======

\* What the HTTP GET plus trafilatura.extract of one page can do.
FetchOutcomes == {"text", "empty", "timeout", "client_error", "other_error"}

\* What ai_chain.ainvoke can do: raise, or return a raw response of one of
\* these shapes.
LlmOutcomes == {"raise", "no_json", "bad_json", "relevant", "not_relevant", "absent"}

\* speculator.py:7 imports aiohttp and speculator.py:10 rebinds the name to the
\* module google.auth.aio.transport.aiohttp, which defines Request and Response
\* but no ClientError: evaluating `aiohttp.ClientError` raises AttributeError.
AiohttpHasClientError == FALSE

\* Line 45 as `return text_content`, with an empty extraction passed on as
\* text.
FetchAndParseEmptyText(outcome) ==
    CASE outcome \in {"text", "empty"} -> "text"
      [] outcome = "timeout"           -> "none"
      [] OTHER                         -> IF AiohttpHasClientError THEN "none" ELSE "raise"

\* _fetch_and_parse_article_content_async: "text" (a non-empty string),
\* "none" (returns None) or "raise" (an exception leaves the function).
\* A timeout matches the first except clause.  Any other exception makes
\* Python evaluate the second clause's expression `aiohttp.ClientError`
\* before it can reach `except Exception`.
FetchAndParse(outcome) ==
    CASE outcome = "text"    -> "text"
      [] outcome = "empty"   -> "none"
      [] outcome = "timeout" -> "none"
      [] OTHER               -> IF AiohttpHasClientError THEN "none" ELSE "raise"

\* A raw response is a sequence of pieces of text.  "fence_json" is the
\* opening fence ```json and "fence" the closing fence ```; "{" and "}" are
\* braces; the is_relevant pieces are the members "is_relevant": true,
\* "is_relevant": false and (for "is_relevant:str") "is_relevant": "false";
\* "meta:{}" is a member whose value is an object, "meta": {"k": 1}.
ResponsePieces ==
    {"fence_json", "fence", "{", "}",
     "is_relevant:true", "is_relevant:false", "is_relevant:str", "meta:{}"}

\* The pieces that are members of a JSON object.
Members == {"is_relevant:true", "is_relevant:false", "is_relevant:str", "meta:{}"}

\* The piece ends with the character }.
ClosesObject(piece) == piece \in {"}", "meta:{}"}

\* The first position from `from` on whose piece ends with }, or 0.
FirstClose(text, from) ==
    LET closes == { q \in from..Len(text) : ClosesObject(text[q]) } IN
    IF closes = {} THEN 0 ELSE CHOOSE q \in closes : \A r \in closes : q <= r

\* The first position from `from` on whose piece ends with } and is followed
\* by a closing fence, or 0.
FirstCloseBeforeFence(text, from) ==
    LET closes == { q \in from..(Len(text) - 1) :
                      ClosesObject(text[q]) /\ text[q + 1] = "fence" } IN
    IF closes = {} THEN 0 ELSE CHOOSE q \in closes : \A r \in closes : q <= r

\* Line 70 tried at position p: the first alternative ```json\s*(\{.*?\})\s*```
\* or the second (\{.*?\}); .*? takes as little as it can.  A match that starts
\* at the brace inside "meta:{}" is the inner object {"k": 1}.
MatchAt(text, p) ==
    IF /\ text[p] = "fence_json"
       /\ p < Len(text)
       /\ text[p + 1] = "{"
       /\ FirstCloseBeforeFence(text, p + 2) # 0
    THEN [found |-> TRUE,
          json_string |-> SubSeq(text, p + 1, FirstCloseBeforeFence(text, p + 2))]
    ELSE IF text[p] = "{" /\ FirstClose(text, p + 1) # 0
    THEN [found |-> TRUE, json_string |-> SubSeq(text, p, FirstClose(text, p + 1))]
    ELSE IF text[p] = "meta:{}"
    THEN [found |-> TRUE, json_string |-> <<"{", "}">>]
    ELSE [found |-> FALSE, json_string |-> <<>>]

\* Lines 70-76: re.search returns the leftmost match.
RegexSearch(text) ==
    LET starts == { p \in 1..Len(text) : MatchAt(text, p).found } IN
    IF starts = {} THEN [found |-> FALSE, json_string |-> <<>>]
    ELSE MatchAt(text, CHOOSE p \in starts : \A r \in starts : p <= r)

\* The value of is_relevant in a sequence of members: the last one counts.
RelevantValue(members) ==
    LET at == { k \in 1..Len(members) : members[k] # "meta:{}" } IN
    IF at = {} THEN "absent"
    ELSE LET last == CHOOSE k \in at : \A r \in at : r <= k IN
         CASE members[last] = "is_relevant:true"  -> "true"
           [] members[last] = "is_relevant:false" -> "false"
           [] OTHER                               -> "str"

\* The pieces are one well-formed object: braces around members.
IsJsonObject(json_string) ==
    /\ Len(json_string) >= 2
    /\ json_string[1] = "{"
    /\ json_string[Len(json_string)] = "}"
    /\ \A k \in 2..(Len(json_string) - 1) : json_string[k] \in Members

\* Lines 78-83: json.loads, None on JSONDecodeError.
JsonLoads(json_string) ==
    IF IsJsonObject(json_string)
    THEN [is_relevant |-> RelevantValue(SubSeq(json_string, 2, Len(json_string) - 1))]
    ELSE None

\* _parse_llm_json_response: the parsed dict, or None when the regular
\* expression finds no object or json.loads rejects it.
ParseLlmJsonResponse(text) ==
    LET match == RegexSearch(text) IN
    IF ~match.found THEN None ELSE JsonLoads(match.json_string)

\* Line 116, parsed_json.get('is_relevant') as a condition: True and a
\* non-empty string are truthy; False and None (absent) are not.
Truthy(value) == value \in {"true", "str"}

\* Lines 115-120 for a raw response: the record of an accepted item, or None.
AnalysisOfResponse(article, text) ==
    LET parsed_json == ParseLlmJsonResponse(text) IN
    IF parsed_json # None /\ Truthy(parsed_json.is_relevant)
    THEN [title |-> article.title, link |-> article.link, analysis |-> parsed_json]
    ELSE None

\* The text of the responses the batch model names.
ResponseText(raw) ==
    CASE raw = "relevant"     -> <<"{", "is_relevant:true", "}">>
      [] raw = "relevant_string" -> <<"{", "is_relevant:str", "}">>
      [] raw = "not_relevant" -> <<"{", "is_relevant:false", "}">>
      [] raw = "absent"       -> <<"{", "}">>
      [] raw = "bad_json"     -> <<"{", "{", "}">>
      [] OTHER                -> <<>>

\* Lines 115-120: the record of an accepted item, or None.
AnalysisOf(article, raw) == AnalysisOfResponse(article, ResponseText(raw))

Items == 1..Len(articles)

InFlight == { i \in Items : task[i] \in {"fetch", "analyse"} }

\* `async with semaphore` (line 97): asyncio.Semaphore admits a waiter only
\* while its value is positive, and wakes waiters first come first served;
\* gather starts the coroutines in list order.
CanAcquireNoGate(i) ==
    /\ task[i] = "wait"
    /\ \A j \in Items : j < i => task[j] # "wait"

CanAcquire(i) ==
    /\ task[i] = "wait"
    /\ semaphore > 0
    /\ \A j \in Items : j < i => task[j] # "wait"

\* A coroutine that leaves the block without giving its slot back.
ReleaseNone(value, slots) == value

\* Leaving `async with semaphore` (line 97), by return or by exception:
\* Semaphore.release() adds the slot back.
Release(value, slots) == value + slots

Acquire(i) ==
    /\ run_pc = "gather"
    /\ CanAcquire(i)
    /\ semaphore' = semaphore - 1
    /\ task' = [task EXCEPT ![i] = "fetch"]
    /\ UNCHANGED <<articles, concurrency_limit, fetched, response, final_analyses, run_pc>>
    /\ SpecFrame

\* Lines 99-102: the fetch returns; leaving the `async with` block, by return
\* or by exception, releases the slot.
FetchDone(i, outcome) ==
    /\ run_pc = "gather"
    /\ task[i] = "fetch"
    /\ fetched' = [fetched EXCEPT ![i] = outcome]
    /\ LET full_text == FetchAndParse(outcome) IN
       CASE full_text = "text" ->
              /\ task' = [task EXCEPT ![i] = "analyse"]
              /\ UNCHANGED semaphore
         [] full_text = "none" ->
              /\ task' = [task EXCEPT ![i] = "discarded"]
              /\ semaphore' = Release(semaphore, 1)
         [] OTHER ->
              /\ task' = [task EXCEPT ![i] = "raised"]
              /\ semaphore' = Release(semaphore, 1)
    /\ UNCHANGED <<articles, concurrency_limit, response, final_analyses, run_pc>>
    /\ SpecFrame

\* Lines 106-125: ainvoke returns or raises; every exception is caught.
AnalyseDone(i, raw) ==
    /\ run_pc = "gather"
    /\ task[i] = "analyse"
    /\ response' = [response EXCEPT ![i] = raw]
    /\ task' = [task EXCEPT ![i] =
                  IF raw # "raise" /\ AnalysisOf(articles[i], raw) # None
                  THEN "accepted" ELSE "discarded"]
    /\ semaphore' = Release(semaphore, 1)
    /\ UNCHANGED <<articles, concurrency_limit, fetched, final_analyses, run_pc>>
    /\ SpecFrame

\* A join that does not wait: it returns once some task has returned.
SomeTaskReturned ==
    \E i \in Items : task[i] \in {"accepted", "discarded"}

\* Line 149: `await asyncio.gather(*tasks)` returns when every task has
\* returned.
AllTasksReturned ==
    \A i \in Items : task[i] \in {"accepted", "discarded"}

RECURSIVE NonNoneBackwards(_, _, _)
\* The results that are not None, taken from the last task to the first.
NonNoneBackwards(results, returned, i) ==
    IF i > Len(results) THEN <<>>
    ELSE NonNoneBackwards(results, returned, i + 1)
         \o (IF returned[i] THEN <<results[i]>> ELSE <<>>)

\* Line 152: [res for res in results if res is not None]; gather returns
\* the results in the order of the tasks.
NonNone(results, returned, i) == SelectSeqIdx(results, returned, i)

\* Lines 149-154: every task has returned; None results are dropped.
GatherReturn ==
    /\ run_pc = "gather"
    /\ AllTasksReturned
    /\ final_analyses' =
         NonNone([i \in Items |-> AnalysisOf(articles[i], response[i])],
                 [i \in Items |-> task[i] = "accepted"], 1)
    /\ run_pc' = "returned"
    /\ UNCHANGED <<articles, concurrency_limit, semaphore, task, fetched, response>>
    /\ SpecFrame

\* Line 149 and run_speculator line 163: gather re-raises the first exception
\* of a task; asyncio.run then cancels the tasks still pending, and a
\* cancelled task leaves its `async with` block, releasing its slot.
GatherRaise ==
    /\ run_pc = "gather"
    /\ \E i \in Items : task[i] = "raised"
    /\ run_pc' = "raised"
    /\ task' = [i \in Items |->
                  IF task[i] \in {"wait", "fetch", "analyse"} THEN "cancelled" ELSE task[i]]
    /\ semaphore' = Release(semaphore, Cardinality(InFlight))
    /\ UNCHANGED <<articles, concurrency_limit, fetched, response, final_analyses>>
    /\ SpecFrame

SpecIdle ==
    /\ articles = <<>>
    /\ concurrency_limit = 0
    /\ semaphore = 0
    /\ task = <<>>
    /\ fetched = <<>>
    /\ response = <<>>
    /\ final_analyses = <<>>
    /\ run_pc = "idle"

VigilIdle ==
    /\ v_articles = <<>>
    /\ cosine_scores = <<>>
    /\ similarity_threshold = 0
    /\ model_cache = None
    /\ v_result = <<>>
    /\ v_pc = "idle"

ArchIdle ==
    /\ store = {}
    /\ now = 0
    /\ analysis_results = <<>>
    /\ candidates = <<>>
    /\ a_last = [op |-> "none", storage |-> "ok", outcome |-> "returned", result |-> <<>>]
    /\ a_before = {}
    /\ add_returned = FALSE
    /\ add_written = FALSE

ScoutIdle ==
    /\ data_sources = <<>>
    /\ sc_outcome = <<>>
    /\ sc_results = <<>>
    /\ all_articles = <<>>
    /\ sc_pc = "idle"

PipeIdle ==
    /\ database = {}
    /\ run = 0
    /\ p_pc = "idle"
    /\ ai_chain = FALSE
    /\ found_articles = <<>>
    /\ relevant_articles = <<>>
    /\ new_relevant_articles = <<>>
    /\ analyses = <<>>
    /\ reads_ok = TRUE
    /\ read_ok = TRUE
    /\ submitted_now = {}
    /\ submitted_earlier = {}
    /\ recorded_earlier = {}
    /\ write_failed = FALSE
    /\ accepted_links = {}

AnalyseIdle ==
    /\ raw_response = <<>>
    /\ an_result = None
    /\ an_pc = "idle"

SslIdle ==
    /\ secure_ssl_context = None
    /\ contexts_built = 0
    /\ domains_to_skip = <<>>
    /\ ssl_calls = <<>>
    /\ loop_owner = 0

CacheIdle ==
    /\ model_requests = 0
    /\ models_built = 0
    /\ last_request = None
    /\ prev_request = None

SummaryIdle ==
    /\ feed_entry = [content |-> None, summary |-> None, description |-> None]
    /\ summary_text = None
    /\ ex_pc = "idle"

\* run_speculator_async lines 141-148 have run: the semaphore is built and
\* one coroutine per article is handed to gather.
SpecInit ==
    /\ articles \in SeqsUpTo(BatchArticles, MaxBatch)
    /\ concurrency_limit \in 0..MaxLimit
    /\ semaphore = concurrency_limit
    /\ task = [i \in 1..Len(articles) |-> "wait"]
    /\ fetched = [i \in 1..Len(articles) |-> "pending"]
    /\ response = [i \in 1..Len(articles) |-> "pending"]
    /\ final_analyses = <<>>
    /\ run_pc = "gather"
    /\ VigilIdle
    /\ ArchIdle
    /\ ScoutIdle
    /\ PipeIdle
    /\ AnalyseIdle
    /\ SslIdle
    /\ CacheIdle
    /\ SummaryIdle

SpecNext ==
    \/ \E i \in Items : Acquire(i)
    \/ \E i \in Items, outcome \in FetchOutcomes : FetchDone(i, outcome)
    \/ \E i \in Items, raw \in LlmOutcomes : AnalyseDone(i, raw)
    \/ GatherReturn
    \/ GatherRaise

SpecSpeculator == SpecInit /\ [][SpecNext]_vars

\* The event loop runs a coroutine that can take a step, and every page
\* fetch and every analysis call that was started comes to its end: while
\* some step is possible, a step is taken.
SpecSpeculatorFair == SpecInit /\ [][SpecNext]_vars /\ WF_vars(SpecNext)

\* ========================================================== vigil.py ======

\* CandidateItems as the Scout produces them.  Two of them share a link, and
\* one has an empty link (release.get('html_url') may be empty).
VigilArticles ==
    { [link |-> "http://a.com", title |-> "Article A"],
      [link |-> "http://a.com", title |-> "Article A Duplicate"],
      [link |-> "http://b.com", title |-> "Article B"],
      [link |-> "http://c.com", title |-> "Article C"],
      [link |-> "",             title |-> "No link"] }

\* Each dict of the list is an object of its own: id stands for its identity.
Tagged(arts) ==
    [i \in 1..Len(arts) |-> [link |-> arts[i].link, title |-> arts[i].title, id |-> i]]

\* Cosine similarities and thresholds, in hundredths.
Similarities == {20, 50, 80}
Thresholds   == {40, 50}

ModelName == "all-MiniLM-L6-v2"

HasScore(article) == "relevance_score" \in DOMAIN article

\* Line 86: article['relevance_score'] = score.
WithScore(article, score) ==
    [key \in DOMAIN article \cup {"relevance_score"} |->
        IF key = "relevance_score" THEN score ELSE article[key]]

\* Line 86 done for every article, before the test of line 84.
ScoredInputAll(arts, scores, threshold) ==
    [i \in 1..Len(arts) |-> WithScore(arts[i], scores[i])]

\* Line 84: the threshold test.
PassesStrict(score, threshold) == score > threshold

Passes(score, threshold) == score >= threshold

\* Lines 82-89, the dicts of the input list after the loop: those that pass
\* carry relevance_score, the others are untouched.
ScoredInput(arts, scores, threshold) ==
    [i \in 1..Len(arts) |->
        IF Passes(scores[i], threshold) THEN WithScore(arts[i], scores[i]) ELSE arts[i]]

\* Lines 80-89: relevant_articles.
RelevantArticles(arts, scores, threshold) ==
    SelectSeqIdx(ScoredInput(arts, scores, threshold),
                 [i \in 1..Len(arts) |-> Passes(scores[i], threshold)], 1)

\* Lines 94-97 without the test `link not in unique_articles_map`: a later
\* article of a link takes the place of the earlier one.
UniqueByLinkLast(relevant, seen) ==
    SelectSeqIdx(relevant,
                 [i \in 1..Len(relevant) |->
                     /\ relevant[i].link # ""
                     /\ \A j \in 1..Len(relevant) : j > i => relevant[j].link # relevant[i].link],
                 1)

\* Lines 94-97 keeping only the articles whose link no other article has.
UniqueByLinkSingles(relevant, seen) ==
    SelectSeqIdx(relevant,
                 [i \in 1..Len(relevant) |->
                     /\ relevant[i].link # ""
                     /\ \A j \in 1..Len(relevant) : j # i => relevant[j].link # relevant[i].link],
                 1)

\* Lines 93-99 left out: final_list is relevant_articles.
UniqueByLinkNone(relevant, seen) == relevant

RECURSIVE UniqueByLink(_, _)
\* Lines 93-99: unique_articles_map keeps the first article of each truthy
\* link, and its values come out in insertion order.
UniqueByLink(relevant, seen) ==
    IF relevant = <<>> THEN <<>>
    ELSE LET article == Head(relevant)
             link == article.link
         IN IF link # "" /\ link \notin seen
            THEN <<article>> \o UniqueByLink(Tail(relevant), seen \cup {link})
            ELSE UniqueByLink(Tail(relevant), seen)

\* A second model name a configuration can ask for.
OtherModelName == "other-model"

\* Line 26 without its test: every request loads.
NeedsLoadAlways(cache, model_name) == TRUE

\* Line 26: `_model_cache is None or _model_cache.model_name_or_path !=
\* model_name`, the attribute holding the name the model was constructed with.
NeedsLoad(cache, model_name) == cache = None \/ cache.name # model_name

\* Lines 26-33: what a request does to the cache.  A model that is
\* constructed is a new object, `fresh` its identity; when the constructor
\* raises, the assignment of line 29 does not happen.
GetEmbeddingModel(cache, model_name, load_ok, fresh) ==
    IF ~NeedsLoad(cache, model_name)
    THEN [attempted |-> FALSE, raised |-> FALSE, cache |-> cache, result |-> cache]
    ELSE IF load_ok
    THEN [attempted |-> TRUE, raised |-> FALSE,
          cache |-> [name |-> model_name, instance |-> fresh],
          result |-> [name |-> model_name, instance |-> fresh]]
    ELSE [attempted |-> TRUE, raised |-> TRUE, cache |-> cache, result |-> None]

\* Lines 60 and 68 returning an empty list instead.
FailClosed(arts) == <<>>

\* Lines 60 and 68: `return articles`, the list that was passed in.
FailOpen(arts) == arts

\* filter_articles, lines 53-103.  embedding says whether context carries an
\* 'embedding'; load_ok whether SentenceTransformer(model_name) succeeds when
\* _get_embedding_model has to construct one.
FilterArticles(embedding, load_ok) ==
    /\ v_pc = "call"
    /\ IF v_articles = <<>> THEN
           /\ v_pc' = "empty"
           /\ v_result' = <<>>
           /\ UNCHANGED <<v_articles, model_cache>>
       ELSE IF ~embedding THEN
           /\ v_pc' = "no_embedding"
           /\ v_result' = FailOpen(v_articles)
           /\ UNCHANGED <<v_articles, model_cache>>
       ELSE IF GetEmbeddingModel(model_cache, ModelName, load_ok, 2).raised THEN
           /\ v_pc' = "load_failed"
           /\ v_result' = FailOpen(v_articles)
           /\ UNCHANGED <<v_articles, model_cache>>
       ELSE
           /\ v_pc' = "normal"
           /\ model_cache' = GetEmbeddingModel(model_cache, ModelName, load_ok, 2).cache
           /\ v_articles' = ScoredInput(v_articles, cosine_scores, similarity_threshold)
           /\ v_result' = UniqueByLink(
                  RelevantArticles(v_articles, cosine_scores, similarity_threshold), {})
    /\ UNCHANGED <<cosine_scores, similarity_threshold>>
    /\ VigilFrame

VigilInit ==
    /\ v_articles \in { Tagged(arts) : arts \in SeqsUpTo(VigilArticles, MaxArticles) }
    /\ cosine_scores \in [1..Len(v_articles) -> Similarities]
    /\ similarity_threshold \in Thresholds
    /\ model_cache \in {None, [name |-> ModelName, instance |-> 1],
                        [name |-> OtherModelName, instance |-> 1]}
    /\ v_result = <<>>
    /\ v_pc = "call"
    /\ SpecIdle
    /\ ArchIdle
    /\ ScoutIdle
    /\ PipeIdle
    /\ AnalyseIdle
    /\ SslIdle
    /\ CacheIdle
    /\ SummaryIdle

VigilNext ==
    \E embedding \in BOOLEAN, load_ok \in BOOLEAN : FilterArticles(embedding, load_ok)

SpecVigil == VigilInit /\ [][VigilNext]_vars

\* ------------------------------------- one item, lines 106-125 in detail

AnalysedArticle == [link |-> "http://a.com", title |-> "Article A"]

\* Line 112: ai_chain.ainvoke returns the raw response or raises; the
\* exception is caught at line 122 and the item is discarded.
Ainvoke(raises) ==
    /\ an_pc = "invoke"
    /\ an_pc' = IF raises THEN "error" ELSE "raw"
    /\ UNCHANGED <<raw_response, an_result>>
    /\ AnalyseFrame

\* Lines 115-120.
ParseAndDecide ==
    /\ an_pc = "raw"
    /\ an_result' = AnalysisOfResponse(AnalysedArticle, raw_response)
    /\ an_pc' = IF an_result' # None THEN "accepted" ELSE "discarded"
    /\ UNCHANGED raw_response
    /\ AnalyseFrame

AnalyseInit ==
    /\ raw_response \in SeqsUpTo(ResponsePieces, MaxPieces)
    /\ an_result = None
    /\ an_pc = "invoke"
    /\ SpecIdle
    /\ VigilIdle
    /\ ArchIdle
    /\ ScoutIdle
    /\ PipeIdle
    /\ SslIdle
    /\ CacheIdle
    /\ SummaryIdle

AnalyseNext ==
    \/ \E raises \in BOOLEAN : Ainvoke(raises)
    \/ ParseAndDecide

SpecAnalyse == AnalyseInit /\ [][AnalyseNext]_vars

\* ----------------------------- _get_embedding_model over many requests

ModelNames == {ModelName, OtherModelName}

\* One call of _get_embedding_model(model_name), lines 25-33.
RequestModel(model_name, load_ok) ==
    /\ model_requests < MaxRequests
    /\ LET request == GetEmbeddingModel(model_cache, model_name, load_ok, models_built + 1) IN
       /\ model_cache' = request.cache
       /\ models_built' = IF request.attempted /\ ~request.raised
                          THEN models_built + 1 ELSE models_built
       /\ last_request' = [model_name |-> model_name, cache_before |-> model_cache,
                           attempted |-> request.attempted, raised |-> request.raised,
                           result |-> request.result, built_before |-> models_built]
    /\ prev_request' = last_request
    /\ model_requests' = model_requests + 1
    /\ UNCHANGED <<v_articles, cosine_scores, similarity_threshold, v_result, v_pc>>
    /\ CacheFrame

CacheInit ==
    /\ model_cache = None
    /\ model_requests = 0
    /\ models_built = 0
    /\ last_request = None
    /\ prev_request = None
    /\ v_articles = <<>>
    /\ cosine_scores = <<>>
    /\ similarity_threshold = 0
    /\ v_result = <<>>
    /\ v_pc = "idle"
    /\ SpecIdle
    /\ ArchIdle
    /\ ScoutIdle
    /\ PipeIdle
    /\ AnalyseIdle
    /\ SslIdle
    /\ SummaryIdle

CacheNext ==
    \E model_name \in ModelNames, load_ok \in BOOLEAN : RequestModel(model_name, load_ok)

SpecModelCache == CacheInit /\ [][CacheNext]_vars

\* ---------------------------------------------------- speculator claims

\* The items whose worker returned a record: the page gave text and the
\* response was accepted.
AcceptedItems == { i \in Items : task[i] = "accepted" }

\* C26: there is one task per input item, and when run_speculator_async
\* returns, its output holds one record for each item whose worker returned
\* a record and nothing else, each with the link and title of its item, in
\* the order of the items.
C26_OneRecordPerAcceptedItemInOrder ==
    /\ DOMAIN task = 1..Len(articles)
    /\ run_pc = "returned" =>
          \E pos \in [1..Len(final_analyses) -> Items] :
             /\ \A k, l \in DOMAIN pos : k < l => pos[k] < pos[l]
             /\ { pos[k] : k \in DOMAIN pos } = AcceptedItems
             /\ \A k \in DOMAIN pos :
                   /\ final_analyses[k].link = articles[pos[k]].link
                   /\ final_analyses[k].title = articles[pos[k]].title

\* A batch of three: the first and the last item were accepted, they are
\* different articles, the middle one was discarded, and the output is the
\* first item's record followed by the last item's.
C26_Witness ==
    /\ run_pc = "returned"
    /\ Len(articles) = 3
    /\ AcceptedItems = {1, 3}
    /\ articles[1].link # articles[3].link
    /\ Len(final_analyses) = 2
    /\ final_analyses[1].link = articles[1].link
    /\ final_analyses[2].link = articles[3].link

\* C27 as stated: for every batch and every limit the configuration
\* accepts, 0 included, when every fetch and every analysis call returns (no
\* fetch raises), eventually every item task has acquired a slot and
\* finished and run_speculator has returned.
C27_EveryTaskFinishesAndRunReturns ==
    <>(\/ run_pc = "returned" /\ \A i \in Items : task[i] \in {"accepted", "discarded"}
       \/ \E i \in Items : task[i] = "raised")

\* C1: with a concurrency limit of at least 1, at most that many items are
\* between acquiring and releasing the semaphore, whatever the batch size
\* and the interleaving.
C1_AtMostLimitInFlight ==
    concurrency_limit >= 1 => Cardinality(InFlight) <= concurrency_limit

\* More items than slots: every slot is taken and an item waits.
C1_Witness ==
    /\ concurrency_limit >= 1
    /\ Len(articles) > concurrency_limit
    /\ Cardinality(InFlight) = concurrency_limit
    /\ \E i \in Items : task[i] = "wait"
    /\ \E i \in Items : task[i] = "analyse"

\* C2 as stated: when page fetches fail by timeout or by an HTTP client
\* error, no exception leaves run_speculator and the result holds the
\* record of every accepted item.
C2_FetchFailureDiscardsItemOnly ==
    (\A i \in Items : fetched[i] # "other_error") =>
        /\ run_pc # "raised"
        /\ run_pc = "returned" =>
              \A i \in Items : task[i] = "accepted" =>
                  \E j \in 1..Len(final_analyses) :
                      final_analyses[j] = AnalysisOf(articles[i], response[i])

\* C15: for an item whose fetch gives no usable text (nothing extracted, a
\* timeout, a failed request) the analysis capability is never invoked, and
\* the item gives no record: the result holds one record per accepted item.
C15_NoTextNoAnalysis ==
    /\ \A i \in Items :
          fetched[i] \notin {"pending", "text"} =>
              /\ response[i] = "pending"
              /\ task[i] \in {"discarded", "raised"}
    /\ \A i \in Items : task[i] = "fetch" => response[i] = "pending"
    /\ run_pc = "returned" =>
          Len(final_analyses) = Cardinality({ i \in Items : task[i] = "accepted" })

\* The batch returned one record: an item with nothing extracted and an
\* item that timed out were never analysed, a third item was accepted.
C15_Witness ==
    /\ run_pc = "returned"
    /\ \E i, j, k \in Items :
          /\ fetched[i] = "empty" /\ response[i] = "pending"
          /\ fetched[j] = "timeout" /\ response[j] = "pending"
          /\ task[k] = "accepted"
    /\ Len(final_analyses) = 1

\* C17: a slot is held exactly by the items between acquiring and leaving
\* the block, whatever the exit path; an item that timed out is discarded;
\* and when the batch join returns (or raises) every slot is free.
C17_SlotsReleasedOnEveryExit ==
    /\ semaphore + Cardinality(InFlight) = concurrency_limit
    /\ \A i \in Items : fetched[i] = "timeout" => task[i] = "discarded"
    /\ run_pc \in {"returned", "raised"} => semaphore = concurrency_limit

\* More items than slots; the join returned after a timeout, an empty
\* extraction, an analysis error and an accepted item, and every slot is
\* free again.
C17_Witness ==
    /\ run_pc = "returned"
    /\ concurrency_limit >= 1
    /\ Len(articles) > concurrency_limit
    /\ semaphore = concurrency_limit
    /\ \E i \in Items : fetched[i] = "timeout"
    /\ \E i \in Items : response[i] = "raise" \/ task[i] = "accepted"

\* ======================================================= archivum.py ======

\* dict.get(key): the value, or None when the key is absent.
Get(dict, key) == IF key \in DOMAIN dict THEN dict[key] ELSE None

\* result.get('title') of a record that has no title.
NoTitle == "None"

\* Analysis records: the scores are an int, a non-numeric string, a float
\* infinity, or absent; one record has no title.
ArchiveRecords ==
    { [link |-> "http://a.com", title |-> "Article A",
       analysis |-> [is_relevant |-> "true", criticality_score |-> [int |-> 3]]],
      [link |-> "http://a.com", title |-> "Other title",
       analysis |-> [is_relevant |-> "true", criticality_score |-> [int |-> 5]]],
      [link |-> "http://a.com", title |-> "Article A",
       analysis |-> [is_relevant |-> "true"]],
      [link |-> "http://b.com", title |-> "Article B",
       analysis |-> [is_relevant |-> "true", criticality_score |-> [str |-> "high"]]],
      [link |-> "http://b.com", title |-> "Article B",
       analysis |-> [is_relevant |-> "true", criticality_score |-> [float |-> "inf"]]],
      [link |-> "http://b.com", title |-> NoTitle,
       analysis |-> [is_relevant |-> "true", criticality_score |-> [int |-> 3]]] }

CandidateArticles ==
    { [link |-> "http://a.com", title |-> "Article A"],
      [link |-> "http://b.com", title |-> "Article B"],
      [link |-> "http://c.com", title |-> "Article C"] }

\* Stores the table can hold when a call starts.
InitialStores ==
    { {},
      { [link |-> "http://a.com", title |-> "Article A",
         criticality_score |-> [int |-> 3], reported_at |-> 0] },
      { [link |-> "http://a.com", title |-> "Article A",
         criticality_score |-> None, reported_at |-> 0],
        [link |-> "http://b.com", title |-> "Article B",
         criticality_score |-> [int |-> 5], reported_at |-> 0] } }

LinksOf(list) == { list[i].link : i \in 1..Len(list) }

StoredLinks(rows) == { row.link : row \in rows }

\* get_db_connection, lines 33-41, and the statement run on the connection:
\* "ok"; "mkdir_error" (db_path.parent.mkdir raises OSError, which is not a
\* sqlite3.Error); "sqlite_error" (connect or execute raises sqlite3.Error).
\* A table that holds rows lives in a directory that exists, where
\* mkdir(exist_ok=True) succeeds.
StorageOutcomes(rows) ==
    IF rows = {} THEN {"ok", "mkdir_error", "sqlite_error"} ELSE {"ok", "sqlite_error"}

\* Lines 81-84: int(score) if score is not None else None, ValueError and
\* TypeError caught.  int() of a float infinity raises OverflowError.
IntOf(score) ==
    CASE score = None             -> [raised |-> FALSE, value |-> None]
      [] "int" \in DOMAIN score   -> [raised |-> FALSE, value |-> score]
      [] "str" \in DOMAIN score   -> [raised |-> FALSE, value |-> None]
      [] OTHER                    -> [raised |-> TRUE, value |-> None]

\* Lines 76-89: one tuple of articles_to_insert.
TupleOf(result) ==
    [link |-> result.link, title |-> result.title,
     criticality_score |-> IntOf(Get(result.analysis, "criticality_score")).value]

ConversionRaises(results) ==
    \E i \in 1..Len(results) : IntOf(Get(results[i].analysis, "criticality_score")).raised

\* INSERT OR REPLACE instead of INSERT OR IGNORE.
InsertOrReplace(rows, tuple, timestamp) ==
    IF tuple.title = NoTitle THEN rows
    ELSE { row \in rows : row.link # tuple.link } \cup
         { [link |-> tuple.link, title |-> tuple.title,
            criticality_score |-> tuple.criticality_score, reported_at |-> timestamp] }

\* Line 94 with SCHEMA lines 10-13: INSERT OR IGNORE skips a tuple whose link
\* is already a primary key or whose title is NULL; reported_at defaults to
\* CURRENT_TIMESTAMP.
InsertOrIgnore(rows, tuple, timestamp) ==
    IF tuple.link \in StoredLinks(rows) \/ tuple.title = NoTitle THEN rows
    ELSE rows \cup { [link |-> tuple.link, title |-> tuple.title,
                      criticality_score |-> tuple.criticality_score,
                      reported_at |-> timestamp] }

\* Line 95 as cursor.execute on the first tuple only.
ExecuteFirst(rows, results, timestamp) ==
    IF results = <<>> THEN rows
    ELSE InsertOrIgnore(rows, TupleOf(Head(results)), timestamp)

RECURSIVE ExecuteMany(_, _, _)
\* Line 95: cursor.executemany over articles_to_insert, in order.
ExecuteMany(rows, results, timestamp) ==
    IF results = <<>> THEN rows
    ELSE ExecuteMany(InsertOrIgnore(rows, TupleOf(Head(results)), timestamp),
                     Tail(results), timestamp)

\* Lines 116-127: SELECT link FROM articles WHERE link IN (links_to_check).
ExistingLinks(rows, links_to_check) == StoredLinks(rows) \cap links_to_check

\* Lines 132-134 with the test turned around: `in existing_links`.
NewArticlesInverted(rows, arts) ==
    SelectSeq(arts, LAMBDA article : article.link \in ExistingLinks(rows, LinksOf(arts)))

\* Lines 132-134: new_articles.
NewArticles(rows, arts) ==
    SelectSeq(arts, LAMBDA article : article.link \notin ExistingLinks(rows, LinksOf(arts)))

\* What the write of lines 92-96 can meet: the outcomes of the connection,
\* or "insert_error", a sqlite3.Error raised by executemany or by commit
\* after some of the tuples were inserted.
AddOutcomes(rows) == StorageOutcomes(rows) \cup {"insert_error"}

\* The transaction is left open when its error leaves the with block.
RollbackNone(before, after) == after

\* Line 92: an exception that leaves `with conn` rolls the transaction back.
Rollback(before, after) == before

\* add_articles_to_archive, lines 73-99.
AddArticlesToArchive(storage) ==
    /\ a_before' = store
    /\ IF analysis_results = <<>> THEN
           /\ a_last' = [op |-> "add", storage |-> "untouched", outcome |-> "returned",
                         result |-> <<>>]
           /\ add_returned' = TRUE
           /\ add_written' = TRUE
           /\ UNCHANGED store
       ELSE IF ConversionRaises(analysis_results) THEN
           /\ a_last' = [op |-> "add", storage |-> "untouched", outcome |-> "raised",
                         result |-> <<>>]
           /\ UNCHANGED <<store, add_returned, add_written>>
       ELSE IF storage = "mkdir_error" THEN
           /\ a_last' = [op |-> "add", storage |-> storage, outcome |-> "raised",
                         result |-> <<>>]
           /\ UNCHANGED <<store, add_returned, add_written>>
       ELSE IF storage = "sqlite_error" THEN
           /\ a_last' = [op |-> "add", storage |-> storage, outcome |-> "returned",
                         result |-> <<>>]
           /\ add_returned' = TRUE
           /\ UNCHANGED <<store, add_written>>
       ELSE IF storage = "insert_error" THEN
           /\ a_last' = [op |-> "add", storage |-> storage, outcome |-> "returned",
                         result |-> <<>>]
           /\ \E inserted \in 0..Len(analysis_results) :
                 store' = Rollback(store,
                                   ExecuteMany(store, SubSeq(analysis_results, 1, inserted), now))
           /\ add_returned' = TRUE
           /\ UNCHANGED add_written
       ELSE
           /\ a_last' = [op |-> "add", storage |-> storage, outcome |-> "returned",
                         result |-> <<>>]
           /\ store' = ExecuteMany(store, analysis_results, now)
           /\ add_returned' = TRUE
           /\ add_written' = TRUE
    /\ UNCHANGED <<now, analysis_results, candidates>>
    /\ ArchFrame

\* filter_new_articles, lines 113-137.
FilterNewArticles(storage) ==
    /\ a_before' = store
    /\ IF candidates = <<>> THEN
           a_last' = [op |-> "filter", storage |-> "untouched", outcome |-> "returned",
                      result |-> <<>>]
       ELSE IF storage = "mkdir_error" THEN
           a_last' = [op |-> "filter", storage |-> storage, outcome |-> "raised",
                      result |-> <<>>]
       ELSE IF storage = "sqlite_error" THEN
           a_last' = [op |-> "filter", storage |-> storage, outcome |-> "returned",
                      result |-> candidates]
       ELSE
           a_last' = [op |-> "filter", storage |-> storage, outcome |-> "returned",
                      result |-> NewArticles(store, candidates)]
    /\ UNCHANGED <<store, now, analysis_results, candidates, add_returned, add_written>>
    /\ ArchFrame

\* Time passes between two calls.
Tick ==
    /\ now < MaxClock
    /\ now' = now + 1
    /\ UNCHANGED <<store, analysis_results, candidates, a_last, a_before,
                   add_returned, add_written>>
    /\ ArchFrame

ArchInit ==
    /\ store \in InitialStores
    /\ now = 1
    /\ analysis_results \in SeqsUpTo(ArchiveRecords, MaxRecords)
    /\ candidates \in SeqsUpTo(CandidateArticles, MaxRecords)
    /\ a_last = [op |-> "none", storage |-> "ok", outcome |-> "returned", result |-> <<>>]
    /\ a_before = store
    /\ add_returned = FALSE
    /\ add_written = FALSE
    /\ SpecIdle
    /\ VigilIdle
    /\ ScoutIdle
    /\ PipeIdle
    /\ AnalyseIdle
    /\ SslIdle
    /\ CacheIdle
    /\ SummaryIdle

ArchNext ==
    \/ \E storage \in AddOutcomes(store) : AddArticlesToArchive(storage)
    \/ \E storage \in StorageOutcomes(store) : FilterNewArticles(storage)
    \/ Tick

SpecArchive == ArchInit /\ [][ArchNext]_vars

\* ========================================================== scout.py ======

\* config.analysis_rules.lookback_period_hours.
LookbackHours == 24

\* The sources a configuration can name, each with the entries it publishes.
\* published is how many hours before now the entry was published, or None
\* when the entry has no publish time.
SourcePool ==
    { [kind |-> "rss_feeds", name |-> "http://feed-one.com/rss",
       entries |-> << [link |-> "http://a.com", title |-> "Article A",
                       published |-> [hours_ago |-> 1]],
                      [link |-> "http://b.com", title |-> "Article B",
                       published |-> [hours_ago |-> 25]] >>],
      [kind |-> "rss_feeds", name |-> "http://feed-two.com/rss",
       entries |-> << [link |-> "http://c.com", title |-> "Article C",
                       published |-> [hours_ago |-> 24]],
                      [link |-> "http://a.com", title |-> "Article A",
                       published |-> [hours_ago |-> 2]] >>],
      [kind |-> "github_releases", name |-> "owner/repo",
       entries |-> << [link |-> "http://github.com/owner/repo/releases/1",
                       title |-> "GitHub Release: v1", published |-> [hours_ago |-> 3]],
                      [link |-> "http://github.com/owner/repo/releases/2",
                       title |-> "GitHub Release: v2", published |-> None] >>] }

\* What the fetch of one source can do: succeed, time out, fail on the
\* network, answer with an HTTP error status, or deliver a document that
\* does not parse (feed.bozo, invalid JSON) or that holds an entry the loop
\* cannot read (a recent feed entry without title or link at lines 80-81, a
\* publish time that is not ISO 8601 at line 121): the handlers of lines
\* 96-98 and 141-143 then return [] for the source.
SourceOutcomes == {"ok", "timeout", "client_error", "http_error", "malformed"}

\* The cutoff compared with > instead of >=.
IsRecentStrict(entry) ==
    entry.published # None /\ entry.published.hours_ago < LookbackHours

\* Lines 76-78 and 118-123: the entry has a publish time at or after
\* cutoff_time = now - lookback.
IsRecent(entry) ==
    entry.published # None /\ entry.published.hours_ago <= LookbackHours

\* Lines 71-90 and 116-131: found_articles of a parsed document.
FoundArticles(source) ==
    LET recent == SelectSeq(source.entries, IsRecent) IN
    [i \in 1..Len(recent) |->
        [link |-> recent[i].link, title |-> recent[i].title,
         source |-> IF source.kind = "rss_feeds" THEN "RSS" ELSE "GitHub Release"]]

\* A malformed document handled as far as it parsed, instead of raising.
FetchFromSourcePartial(source, outcome) ==
    IF outcome \in {"ok", "malformed"} THEN FoundArticles(source) ELSE <<>>

\* fetch_from_rss_async, lines 56-98, and fetch_from_github_releases_async,
\* lines 111-143: every exception is caught and the fetcher returns [].
FetchFromSource(source, outcome) ==
    IF outcome = "ok" THEN FoundArticles(source) ELSE <<>>

RECURSIVE Extend(_, _)
\* Lines 180-181: all_articles.extend(article_list) for each list, in order.
Extend(lists, i) ==
    IF i > Len(lists) THEN <<>> ELSE lists[i] \o Extend(lists, i + 1)

\* One fetcher coroutine runs to its end.
Fetch(i, outcome) ==
    /\ sc_pc = "gather"
    /\ i \in 1..Len(data_sources)
    /\ sc_outcome[i] = "pending"
    /\ sc_outcome' = [sc_outcome EXCEPT ![i] = outcome]
    /\ sc_results' = [sc_results EXCEPT ![i] = FetchFromSource(data_sources[i], outcome)]
    /\ UNCHANGED <<data_sources, all_articles, sc_pc>>
    /\ ScoutFrame

\* Lines 178-184: gather has every result; run_scout_async returns.
ScoutReturn ==
    /\ sc_pc = "gather"
    /\ \A i \in 1..Len(data_sources) : sc_outcome[i] # "pending"
    /\ all_articles' = Extend(sc_results, 1)
    /\ sc_pc' = "returned"
    /\ UNCHANGED <<data_sources, sc_outcome, sc_results>>
    /\ ScoutFrame

\* Lines 170-176: one task per configured source, the feeds first.
ScoutInit ==
    /\ data_sources \in
         { srcs \in SeqsUpTo(SourcePool, MaxSources) :
             \A i, j \in 1..Len(srcs) :
                 i < j => ~(srcs[i].kind = "github_releases" /\ srcs[j].kind = "rss_feeds") }
    /\ sc_outcome = [i \in 1..Len(data_sources) |-> "pending"]
    /\ sc_results = [i \in 1..Len(data_sources) |-> <<>>]
    /\ all_articles = <<>>
    /\ sc_pc = "gather"
    /\ SpecIdle
    /\ VigilIdle
    /\ ArchIdle
    /\ PipeIdle
    /\ AnalyseIdle
    /\ SslIdle
    /\ CacheIdle
    /\ SummaryIdle

ScoutNext ==
    \/ \E i \in 1..Len(data_sources), outcome \in SourceOutcomes : Fetch(i, outcome)
    \/ ScoutReturn

SpecScout == ScoutInit /\ [][ScoutNext]_vars

\* ------------------------------------------ _extract_summary, lines 19-43

\* Line 33: the length kept of the text of the content.
SummaryLimit == 400

\* The length of a tag, "<p>".
TagLength == 3

\* What a field of an entry is made of: tags and runs of text without
\* surrounding whitespace, of 1, 200 or 400 characters.
HtmlPieces == { [tag |-> "p"], [chars |-> 1], [chars |-> 200], [chars |-> 400] }

IsTag(piece) == "tag" \in DOMAIN piece

\* entry.content: absent, a list whose first element carries the markup in
\* .value, or a list whose first element has no .value.
Contents ==
    {None, [no_value |-> TRUE]} \cup { [value |-> html] : html \in SeqsUpTo(HtmlPieces, MaxParts) }

\* entry.summary and entry.description: absent or a string.
ShortTexts == {None} \cup { [value |-> html] : html \in SeqsUpTo(HtmlPieces, 1) }

RECURSIVE TextNodes(_)
\* Line 29: the text nodes BeautifulSoup finds, as their lengths; runs that
\* no tag separates are one node.
TextNodes(html) ==
    IF html = <<>> THEN <<>>
    ELSE IF IsTag(Head(html)) THEN TextNodes(Tail(html))
    ELSE IF Len(html) >= 2 /\ ~IsTag(html[2])
         THEN TextNodes(<<[chars |-> html[1].chars + html[2].chars]>> \o SubSeq(html, 3, Len(html)))
         ELSE <<html[1].chars>> \o TextNodes(Tail(html))

RECURSIVE SumSeq(_)
SumSeq(lengths) == IF lengths = <<>> THEN 0 ELSE Head(lengths) + SumSeq(Tail(lengths))

\* Line 30: soup.get_text(separator=' ', strip=True), as the length of the
\* text: the nodes joined by one space.
GetTextLength(html) ==
    LET nodes == TextNodes(html)
    IN IF nodes = <<>> THEN 0 ELSE SumSeq(nodes) + Len(nodes) - 1

\* len() of a string with its markup.
RawLength(html) ==
    SumSeq([i \in 1..Len(html) |-> IF IsTag(html[i]) THEN TagLength ELSE html[i].chars])

HasMarkup(html) == \E i \in 1..Len(html) : IsTag(html[i])

\* Line 33: text_content[:400] + '...' when longer than 400, else the text.
\* A returned string is its length without the marker, whether it holds
\* markup, and whether it ends with the marker added at line 33.
Truncated(length) ==
    IF length > SummaryLimit
    THEN [chars |-> SummaryLimit, markup |-> FALSE, marker |-> TRUE]
    ELSE [chars |-> length, markup |-> FALSE, marker |-> FALSE]

\* Lines 38 and 41: the string of the field as it is.
AsIs(html) == [chars |-> RawLength(html), markup |-> HasMarkup(html), marker |-> FALSE]

\* Lines 38 and 41 with the field handled as the content is at lines 29-33.
Cleaned(html) == Truncated(GetTextLength(html))

\* Lines 37-41: entry.summary and entry.description are returned as they are.
ShortText(html) == AsIs(html)

\* Lines 26-35: the text of the content when there is any; an element
\* without .value raises AttributeError, which falls through.
ContentText(content) ==
    IF content = None \/ "value" \notin DOMAIN content THEN None
    ELSE IF content.value = <<>> THEN None
    ELSE IF GetTextLength(content.value) = 0 THEN None
    ELSE Truncated(GetTextLength(content.value))

HasString(field) == field # None /\ field.value # <<>>

\* _extract_summary, lines 26-43.
ExtractSummaryOf(entry) ==
    IF ContentText(entry.content) # None THEN ContentText(entry.content)
    ELSE IF HasString(entry.summary) THEN ShortText(entry.summary.value)
    ELSE IF HasString(entry.description) THEN ShortText(entry.description.value)
    ELSE [chars |-> 0, markup |-> FALSE, marker |-> FALSE]

\* Line 83: "summary": _extract_summary(entry).
ExtractSummary ==
    /\ ex_pc = "called"
    /\ summary_text' = ExtractSummaryOf(feed_entry)
    /\ ex_pc' = "returned"
    /\ UNCHANGED feed_entry
    /\ SummaryFrame

SummaryInit ==
    /\ feed_entry \in [content : Contents, summary : ShortTexts, description : ShortTexts]
    /\ summary_text = None
    /\ ex_pc = "called"
    /\ SpecIdle
    /\ VigilIdle
    /\ ArchIdle
    /\ ScoutIdle
    /\ PipeIdle
    /\ AnalyseIdle
    /\ SslIdle
    /\ CacheIdle

SummaryNext == ExtractSummary

SpecSummary == SummaryInit /\ [][SummaryNext]_vars

\* --------------------------------------------------------- scout claims

\* The items of the sources from position i on that did not fail.
RECURSIVE ItemsOfWorkingSources(_)
ItemsOfWorkingSources(i) ==
    IF i > Len(data_sources) THEN <<>>
    ELSE (IF sc_outcome[i] = "ok" THEN FoundArticles(data_sources[i]) ELSE <<>>)
         \o ItemsOfWorkingSources(i + 1)

\* C3: whatever subset of the sources fails, run_scout_async raises nothing
\* and returns exactly the items of the sources that did not fail; a failed
\* source contributes the empty list.
C3_FailingSourcesContributeNothing ==
    /\ sc_pc \in {"idle", "gather", "returned"}
    /\ \A i \in 1..Len(sc_results) : sc_outcome[i] \notin {"ok", "pending"} => sc_results[i] = <<>>
    /\ sc_pc = "returned" => all_articles = ItemsOfWorkingSources(1)

\* Three sources, one of them failed, and the items of the other two are
\* returned.
C3_Witness ==
    /\ sc_pc = "returned"
    /\ Len(data_sources) = 3
    /\ Cardinality({ i \in 1..3 : sc_outcome[i] # "ok" }) = 1
    /\ \E i \in 1..3 : sc_outcome[i] # "ok" /\ FoundArticles(data_sources[i]) # <<>>
    /\ Len(all_articles) >= 2

\* The positions of the entries of a source that have a publish time at or
\* after now - lookback.
InWindow(source) ==
    { j \in 1..Len(source.entries) :
        /\ source.entries[j].published # None
        /\ LookbackHours - source.entries[j].published.hours_ago >= 0 }

PreferredField(entry) ==
    IF entry.content # None /\ "value" \in DOMAIN entry.content /\ entry.content.value # <<>>
    THEN entry.content.value
    ELSE IF entry.summary # None /\ entry.summary.value # <<>> THEN entry.summary.value
    ELSE IF entry.description # None /\ entry.description.value # <<>>
         THEN entry.description.value
         ELSE <<>>

\* C24 as stated: the summary is the preferred field without its markup, at
\* most 400 characters of it, with the marker exactly when text was cut.
C24_BoundedPlainTextSummary ==
    ex_pc = "returned" =>
        /\ summary_text.markup = FALSE
        /\ summary_text.chars <= SummaryLimit
        /\ summary_text.chars =
              IF GetTextLength(PreferredField(feed_entry)) > SummaryLimit
              THEN SummaryLimit ELSE GetTextLength(PreferredField(feed_entry))
        /\ summary_text.marker = (GetTextLength(PreferredField(feed_entry)) > SummaryLimit)

\* The content of the entry holds text outside its tags.
ContentHasText(entry) ==
    /\ entry.content # None
    /\ "value" \in DOMAIN entry.content
    /\ \E i \in 1..Len(entry.content.value) : ~IsTag(entry.content.value[i])

\* C24 amended: when the content holds text, the summary is that text
\* without markup, at most 400 characters of it, with the marker exactly
\* when text was cut; otherwise it is the summary field, else the
\* description field, returned as it is, markup and full length included,
\* without marker; otherwise it is empty.
C24_ContentBoundedOthersAsIs ==
    ex_pc = "returned" =>
        IF ContentHasText(feed_entry) THEN
            /\ summary_text.markup = FALSE
            /\ summary_text.chars <= SummaryLimit
            /\ summary_text.chars =
                  IF GetTextLength(feed_entry.content.value) > SummaryLimit
                  THEN SummaryLimit ELSE GetTextLength(feed_entry.content.value)
            /\ summary_text.marker = (GetTextLength(feed_entry.content.value) > SummaryLimit)
        ELSE LET field == IF feed_entry.summary # None /\ feed_entry.summary.value # <<>>
                          THEN feed_entry.summary.value
                          ELSE IF feed_entry.description # None
                               THEN feed_entry.description.value ELSE <<>>
             IN /\ summary_text.chars = RawLength(field)
                /\ summary_text.markup = HasMarkup(field)
                /\ summary_text.marker = FALSE

\* An entry whose content is 401 characters of text around a tag is cut to
\* 400 with the marker although a summary is present.
C24_Witness ==
    /\ ex_pc = "returned"
    /\ ContentHasText(feed_entry)
    /\ HasMarkup(feed_entry.content.value)
    /\ GetTextLength(feed_entry.content.value) = SummaryLimit + 1
    /\ feed_entry.summary # None /\ feed_entry.summary.value # <<>>
    /\ summary_text = [chars |-> SummaryLimit, markup |-> FALSE, marker |-> TRUE]

\* ========================================================== utils.py ======

\* Strings are sequences of characters.  A url is its userinfo and its host
\* (urlparse's netloc is userinfo@host), or a text urlparse rejects.
Hosts == { <<"a">>, <<"b">>, <<"a", "b">> }

Urls ==
    { [parses |-> FALSE, userinfo |-> <<>>, host |-> <<>>] } \cup
    { [parses |-> TRUE, userinfo |-> u, host |-> h] : u \in {<<>>, <<"a">>}, h \in Hosts }

\* The lists config.security.skip_ssl_verify can hold.
SkipLists == { <<>>, << <<"a">> >>, << <<"b", "a">> >>, << <<"b", "a">>, <<"a">> >> }

\* What should_verify_ssl_for_url returns to disable verification: False.
Unverified == [verify_ssl |-> FALSE]

\* `sub in text` for strings.
Contains(text, sub) ==
    \E k \in 0..(Len(text) - Len(sub)) : SubSeq(text, k + 1, k + Len(sub)) = sub

\* parsed_url.hostname: the host without userinfo.
Hostname(url) == url.host

\* Line 54: parsed_url.netloc, the userinfo included.
Netloc(url) ==
    IF url.userinfo = <<>> THEN url.host ELSE url.userinfo \o <<"@">> \o url.host

\* Line 60: any(skip_domain in domain for skip_domain in domains_to_skip).
MatchesSkipList(url, skips) ==
    \E k \in 1..Len(skips) : Contains(Netloc(url), skips[k])

\* Lines 48-66: whether the call returns False; otherwise it goes on to
\* _get_secure_ssl_context.
ReturnsFalse(url, skips) ==
    /\ skips # <<>>
    /\ url.parses
    /\ MatchesSkipList(url, skips)

SslCallers == 1..Len(ssl_calls)

\* Code that runs beside other callers' code, as threads would.
CanRunAnyTime(c) == TRUE

\* The callers are coroutines of one event loop (scout.py line 54,
\* speculator.py line 36), and should_verify_ssl_for_url does not await: a
\* call runs from entry to return before another caller's code runs.
CanRun(c) == loop_owner \in {0, c}

\* Lines 48-66.
SslCall(c) ==
    /\ ssl_calls[c].pc = "pending"
    /\ CanRun(c)
    /\ loop_owner' = c
    /\ ssl_calls' = [ssl_calls EXCEPT ![c] =
          IF ReturnsFalse(ssl_calls[c].url, domains_to_skip)
          THEN [@ EXCEPT !.pc = "returning", !.result = Unverified]
          ELSE [@ EXCEPT !.pc = "get_context"]]
    /\ UNCHANGED <<secure_ssl_context, contexts_built, domains_to_skip>>
    /\ SslFrame

\* Line 26: `if _secure_ssl_context is None`.
SslTestCache(c) ==
    /\ ssl_calls[c].pc = "get_context"
    /\ CanRun(c)
    /\ ssl_calls' = [ssl_calls EXCEPT ![c].pc =
          IF secure_ssl_context = None THEN "create" ELSE "cached"]
    /\ UNCHANGED <<secure_ssl_context, contexts_built, domains_to_skip, loop_owner>>
    /\ SslFrame

\* Line 27: ssl.create_default_context builds a new context, stored in the
\* global.
SslCreate(c) ==
    /\ ssl_calls[c].pc = "create"
    /\ CanRun(c)
    /\ contexts_built' = contexts_built + 1
    /\ secure_ssl_context' = [context |-> contexts_built + 1]
    /\ ssl_calls' = [ssl_calls EXCEPT ![c].pc = "cached"]
    /\ UNCHANGED <<domains_to_skip, loop_owner>>
    /\ SslFrame

\* Line 28: `return _secure_ssl_context`.
SslReturnContext(c) ==
    /\ ssl_calls[c].pc = "cached"
    /\ CanRun(c)
    /\ ssl_calls' = [ssl_calls EXCEPT ![c] =
          [@ EXCEPT !.pc = "returning", !.result = secure_ssl_context]]
    /\ UNCHANGED <<secure_ssl_context, contexts_built, domains_to_skip, loop_owner>>
    /\ SslFrame

\* The call returns to its coroutine, which goes on to its request and
\* awaits: other callers' code can run.
SslReturn(c) ==
    /\ ssl_calls[c].pc = "returning"
    /\ ssl_calls' = [ssl_calls EXCEPT ![c].pc = "done"]
    /\ loop_owner' = 0
    /\ UNCHANGED <<secure_ssl_context, contexts_built, domains_to_skip>>
    /\ SslFrame

SslInit ==
    /\ secure_ssl_context = None
    /\ contexts_built = 0
    /\ domains_to_skip \in SkipLists
    /\ ssl_calls \in { [c \in 1..Len(urls) |->
                          [url |-> urls[c], pc |-> "pending", result |-> None]] :
                       urls \in SeqsUpTo(Urls, MaxCallers) }
    /\ loop_owner = 0
    /\ SpecIdle
    /\ VigilIdle
    /\ ArchIdle
    /\ ScoutIdle
    /\ PipeIdle
    /\ AnalyseIdle
    /\ CacheIdle
    /\ SummaryIdle

SslNext ==
    \/ \E c \in SslCallers : SslCall(c)
    \/ \E c \in SslCallers : SslTestCache(c)
    \/ \E c \in SslCallers : SslCreate(c)
    \/ \E c \in SslCallers : SslReturnContext(c)
    \/ \E c \in SslCallers : SslReturn(c)

SpecSsl == SslInit /\ [][SslNext]_vars

\* ======================================================== legatus.py ======

\* DEFAULT_SIMILARITY_THRESHOLD, in hundredths.
DefaultSimilarityThreshold == 30

\* What the page fetch and the analyzer do for the items of a run.
RunFetchOutcomes == {"text", "timeout", "client_error"}
RunLlmOutcomes == {"relevant", "relevant_string", "not_relevant"}

\* Lines 100-125 of speculator.py for one article, given what its fetch and
\* its analyzer call do: the record, None, or "raise" out of the coroutine.
AnalyzeSingleArticle(article, fetch, raw) ==
    CASE FetchAndParse(fetch) = "raise" -> [raised |-> TRUE, value |-> None]
      [] FetchAndParse(fetch) = "none"  -> [raised |-> FALSE, value |-> None]
      [] OTHER -> [raised |-> FALSE, value |-> AnalysisOf(article, raw)]

\* speculator.py lines 149-152: results in task order, None dropped.
FinalAnalyses(arts, fetch, raw) ==
    LET results == [i \in 1..Len(arts) |-> AnalyzeSingleArticle(arts[i], fetch[i], raw[i]).value]
    IN SelectSeq(results, LAMBDA res : res # None)

\* The Seen-Set read answering that no link is stored.
SeenLinksNone(rows, arts) == arts

\* Stage 5, line 212, when the read succeeds.
SeenLinksExcluded(rows, arts) == NewArticles(rows, arts)

\* Lines 179-186: initialize_database; an exception ends the process.
\* Lines 201-202: the shared chain, or None when it cannot be built.
Startup(db_ok, chain) ==
    /\ p_pc = "start"
    /\ IF db_ok THEN p_pc' = "scout" /\ ai_chain' = chain
                ELSE p_pc' = "exit" /\ UNCHANGED ai_chain
    /\ UNCHANGED <<database, run, found_articles, relevant_articles,
                   new_relevant_articles, analyses, reads_ok, read_ok,
                   submitted_now, submitted_earlier, recorded_earlier,
                   write_failed, accepted_links>>
    /\ PipeFrame

\* Stage 3, lines 205-206: what the sources publish now.
RunScout(found) ==
    /\ p_pc = "scout"
    /\ found_articles' = found
    /\ p_pc' = "vigil"
    /\ UNCHANGED <<database, run, ai_chain, relevant_articles, new_relevant_articles,
                   analyses, reads_ok, read_ok, submitted_now, submitted_earlier, recorded_earlier,
                   write_failed, accepted_links>>
    /\ PipeFrame

\* Stage 4, line 209: filter_articles, on its normal path or failing open.
RunVigil(scores, normal) ==
    /\ p_pc = "vigil"
    /\ relevant_articles' =
         IF found_articles = <<>> THEN <<>>
         ELSE IF normal
              THEN UniqueByLink(RelevantArticles(found_articles, scores,
                                                 DefaultSimilarityThreshold), {})
              ELSE found_articles
    /\ p_pc' = "archive_filter"
    /\ UNCHANGED <<database, run, ai_chain, found_articles, new_relevant_articles,
                   analyses, reads_ok, read_ok, submitted_now, submitted_earlier, recorded_earlier,
                   write_failed, accepted_links>>
    /\ PipeFrame

\* Stage 5, line 212: filter_new_articles; a failed read returns its input.
RunArchiveFilter(storage) ==
    /\ p_pc = "archive_filter"
    /\ new_relevant_articles' =
         IF relevant_articles = <<>> THEN <<>>
         ELSE IF storage = "ok" THEN SeenLinksExcluded(database, relevant_articles)
              ELSE relevant_articles
    /\ read_ok' = (relevant_articles = <<>> \/ storage = "ok")
    /\ reads_ok' = (reads_ok /\ read_ok')
    /\ p_pc' = "speculate"
    /\ UNCHANGED <<database, run, ai_chain, found_articles, relevant_articles,
                   analyses, submitted_now, submitted_earlier, recorded_earlier,
                   write_failed, accepted_links>>
    /\ PipeFrame

\* Stage 6, lines 215-219: run_speculator on the new relevant articles.  An
\* exception that leaves a coroutine leaves run_speculator and legatus_main.
RunSpeculatorStage(fetch, raw) ==
    /\ p_pc = "speculate"
    /\ IF new_relevant_articles # <<>> /\ ai_chain THEN
           /\ submitted_now' = LinksOf(new_relevant_articles)
           /\ IF \E i \in 1..Len(new_relevant_articles) :
                    AnalyzeSingleArticle(new_relevant_articles[i], fetch[i], raw[i]).raised
              THEN p_pc' = "crashed" /\ UNCHANGED <<analyses, accepted_links>>
              ELSE /\ analyses' = FinalAnalyses(new_relevant_articles, fetch, raw)
                   /\ accepted_links' = accepted_links \cup
                         { new_relevant_articles[i].link :
                             i \in { n \in 1..Len(new_relevant_articles) :
                                       fetch[n] = "text" /\ raw[n] = "relevant" } }
                   /\ p_pc' = IF analyses' # <<>> THEN "report" ELSE "summary"
       ELSE
           /\ p_pc' = "summary"
           /\ UNCHANGED <<analyses, submitted_now, accepted_links>>
    /\ UNCHANGED <<database, run, ai_chain, found_articles, relevant_articles,
                   new_relevant_articles, reads_ok, read_ok, submitted_earlier,
                   recorded_earlier, write_failed>>
    /\ PipeFrame

\* notarius.py line 96: the sort key of a record, criticality_score or 0.
\* Numbers compare with numbers and strings with strings; None compares
\* with nothing, itself included.
SortKey(result) ==
    LET score == Get(result.analysis, "criticality_score")
    IN IF "criticality_score" \notin DOMAIN result.analysis THEN "number"
       ELSE IF score = None THEN "none"
       ELSE IF "str" \in DOMAIN score THEN "string"
       ELSE "number"

\* notarius.py lines 94-98: sorted raises TypeError when two of the keys do
\* not compare.
SortRaises(results) ==
    \E i, j \in 1..Len(results) :
        i < j /\ (SortKey(results[i]) # SortKey(results[j]) \/ SortKey(results[i]) = "none")

\* Stage 7, line 223: generate_report.  A directory that cannot be made, an
\* unknown format and an IOError of the writer are logged and the call
\* returns (notarius.py lines 87-91, 102-108, 40, 56); the TypeError of the
\* sort leaves generate_report and legatus_main.
GenerateReport ==
    /\ p_pc = "report"
    /\ p_pc' = IF SortRaises(analyses) THEN "crashed" ELSE "archive"
    /\ UNCHANGED <<database, run, ai_chain, found_articles, relevant_articles,
                   new_relevant_articles, analyses, reads_ok, read_ok,
                   submitted_now, submitted_earlier, recorded_earlier,
                   write_failed, accepted_links>>
    /\ PipeFrame

\* Stage 8, line 225: add_articles_to_archive; the exception of a score
\* conversion leaves it and legatus_main, a database error is logged and
\* nothing is written.
RunArchive(storage) ==
    /\ p_pc = "archive"
    /\ IF ConversionRaises(analyses) THEN
           /\ p_pc' = "crashed"
           /\ UNCHANGED <<database, write_failed>>
       ELSE
           /\ database' = IF storage = "ok" THEN ExecuteMany(database, analyses, run)
                                            ELSE database
           /\ write_failed' = (storage # "ok")
           /\ p_pc' = "summary"
    /\ UNCHANGED <<run, ai_chain, found_articles, relevant_articles,
                   new_relevant_articles, analyses, reads_ok, read_ok,
                   submitted_now, submitted_earlier, recorded_earlier,
                   accepted_links>>
    /\ PipeFrame

\* Line 227: _log_summary, and legatus_main returns.
LogSummary ==
    /\ p_pc = "summary"
    /\ p_pc' = "done"
    /\ UNCHANGED <<database, run, ai_chain, found_articles, relevant_articles,
                   new_relevant_articles, analyses, reads_ok, read_ok,
                   submitted_now, submitted_earlier, recorded_earlier,
                   write_failed, accepted_links>>
    /\ PipeFrame

\* The process has ended; legatus_main is started again on the same database.
NextRun ==
    /\ p_pc \in {"done", "crashed", "exit"}
    /\ run < MaxRuns
    /\ run' = run + 1
    /\ p_pc' = "start"
    /\ submitted_earlier' = submitted_earlier \cup submitted_now
    /\ recorded_earlier' = submitted_earlier' \cap StoredLinks(database)
    /\ submitted_now' = {}
    /\ found_articles' = <<>>
    /\ relevant_articles' = <<>>
    /\ new_relevant_articles' = <<>>
    /\ analyses' = <<>>
    /\ read_ok' = TRUE
    /\ ai_chain' = FALSE
    /\ write_failed' = FALSE
    /\ UNCHANGED <<database, reads_ok, accepted_links>>
    /\ PipeFrame

PipeInit ==
    /\ database = {}
    /\ run = 1
    /\ p_pc = "start"
    /\ ai_chain = FALSE
    /\ found_articles = <<>>
    /\ relevant_articles = <<>>
    /\ new_relevant_articles = <<>>
    /\ analyses = <<>>
    /\ reads_ok = TRUE
    /\ read_ok = TRUE
    /\ submitted_now = {}
    /\ submitted_earlier = {}
    /\ recorded_earlier = {}
    /\ write_failed = FALSE
    /\ accepted_links = {}
    /\ SpecIdle
    /\ VigilIdle
    /\ ArchIdle
    /\ ScoutIdle
    /\ AnalyseIdle
    /\ SslIdle
    /\ CacheIdle
    /\ SummaryIdle

PipeNext ==
    \/ \E db_ok \in BOOLEAN, chain \in BOOLEAN : Startup(db_ok, chain)
    \/ \E found \in SeqsUpTo(BatchArticles, MaxFound) : RunScout(found)
    \/ \E scores \in [1..Len(found_articles) -> Similarities], normal \in BOOLEAN :
          RunVigil(scores, normal)
    \/ \E storage \in {"ok", "sqlite_error"} : RunArchiveFilter(storage)
    \/ \E fetch \in [1..Len(new_relevant_articles) -> RunFetchOutcomes],
          raw \in [1..Len(new_relevant_articles) -> RunLlmOutcomes] :
          RunSpeculatorStage(fetch, raw)
    \/ GenerateReport
    \/ \E storage \in {"ok", "sqlite_error"} : RunArchive(storage)
    \/ LogSummary
    \/ NextRun

SpecPipeline == PipeInit /\ [][PipeNext]_vars

\* --------------------- Stages 7 and 8 with the scores of the records

\* The records run_speculator can return: the analysis is the parsed
\* response, whose criticality_score is an int, absent, null, a string or a
\* float infinity.
AcceptedRecords ==
    { [link |-> art.link, title |-> art.title, analysis |-> analysis] :
        art \in { [link |-> "http://a.com", title |-> "Article A"],
                  [link |-> "http://b.com", title |-> "Article B"] },
        analysis \in { [is_relevant |-> "true", criticality_score |-> [int |-> 3]],
                       [is_relevant |-> "true"],
                       [is_relevant |-> "true", criticality_score |-> None],
                       [is_relevant |-> "true", criticality_score |-> [str |-> "high"]],
                       [is_relevant |-> "true", criticality_score |-> [float |-> "inf"]] } }

\* legatus_main has reached line 221 of its first run with a non-empty
\* final_analyses; the links were submitted although stored when the read
\* of Stage 5 failed open.
RecordInit ==
    /\ database \in InitialStores
    /\ run = 1
    /\ p_pc = "report"
    /\ ai_chain = TRUE
    /\ analyses \in SeqsUpTo(AcceptedRecords, MaxRecords) \ {<<>>}
    /\ new_relevant_articles =
          [i \in 1..Len(analyses) |-> [link |-> analyses[i].link, title |-> analyses[i].title]]
    /\ relevant_articles = new_relevant_articles
    /\ found_articles = new_relevant_articles
    /\ read_ok = (LinksOf(analyses) \cap StoredLinks(database) = {})
    /\ reads_ok = read_ok
    /\ submitted_now = LinksOf(analyses)
    /\ submitted_earlier = {}
    /\ recorded_earlier = {}
    /\ write_failed = FALSE
    /\ accepted_links = LinksOf(analyses)
    /\ SpecIdle
    /\ VigilIdle
    /\ ArchIdle
    /\ ScoutIdle
    /\ AnalyseIdle
    /\ SslIdle
    /\ CacheIdle
    /\ SummaryIdle

RecordNext ==
    \/ GenerateReport
    \/ \E storage \in {"ok", "sqlite_error"} : RunArchive(storage)
    \/ LogSummary

SpecRecord == RecordInit /\ [][RecordNext]_vars

\* ------------------------- Stages 6 to 8 with the item tasks in detail

\* Line 217: run_speculator is called with the new relevant articles; lines
\* 141-148 of speculator.py build the semaphore and the tasks.  Without
\* articles or without a chain the stage is skipped.
StartSpeculator(limit) ==
    /\ p_pc = "speculate"
    /\ IF new_relevant_articles # <<>> /\ ai_chain THEN
           /\ articles' = new_relevant_articles
           /\ concurrency_limit' = limit
           /\ semaphore' = limit
           /\ task' = [i \in 1..Len(new_relevant_articles) |-> "wait"]
           /\ fetched' = [i \in 1..Len(new_relevant_articles) |-> "pending"]
           /\ response' = [i \in 1..Len(new_relevant_articles) |-> "pending"]
           /\ final_analyses' = <<>>
           /\ run_pc' = "gather"
           /\ p_pc' = "speculating"
           /\ submitted_now' = LinksOf(new_relevant_articles)
       ELSE
           /\ p_pc' = "summary"
           /\ UNCHANGED <<specVars, submitted_now>>
    /\ UNCHANGED <<database, run, ai_chain, found_articles, relevant_articles,
                   new_relevant_articles, analyses, reads_ok, read_ok,
                   submitted_earlier, recorded_earlier,
                   write_failed, accepted_links>>
    /\ StageFrame

\* Line 217: run_speculator returns final_analyses, or its exception leaves
\* legatus_main.
JoinSpeculator ==
    /\ p_pc = "speculating"
    /\ run_pc \in {"returned", "raised"}
    /\ IF run_pc = "returned"
       THEN /\ analyses' = final_analyses
            /\ accepted_links' = accepted_links \cup
                  { articles[i].link :
                      i \in { n \in Items : fetched[n] = "text" /\ response[n] = "relevant" } }
            /\ p_pc' = IF final_analyses # <<>> THEN "report" ELSE "summary"
       ELSE /\ p_pc' = "crashed"
            /\ UNCHANGED <<analyses, accepted_links>>
    /\ UNCHANGED <<database, run, ai_chain, found_articles, relevant_articles,
                   new_relevant_articles, reads_ok, read_ok, submitted_now,
                   submitted_earlier, recorded_earlier, write_failed>>
    /\ PipeFrame

\* legatus_main has reached Stage 6 of its first run.
StageInit ==
    /\ database \in InitialStores
    /\ run = 1
    /\ p_pc = "speculate"
    /\ ai_chain \in BOOLEAN
    /\ new_relevant_articles \in SeqsUpTo(BatchArticles, MaxFound)
    /\ relevant_articles = new_relevant_articles
    /\ found_articles = new_relevant_articles
    /\ analyses = <<>>
    /\ reads_ok = TRUE
    /\ read_ok = TRUE
    /\ submitted_now = {}
    /\ submitted_earlier = {}
    /\ recorded_earlier = {}
    /\ write_failed = FALSE
    /\ accepted_links = {}
    /\ SpecIdle
    /\ VigilIdle
    /\ ArchIdle
    /\ ScoutIdle
    /\ AnalyseIdle
    /\ SslIdle
    /\ CacheIdle
    /\ SummaryIdle

StageNext ==
    \/ \E limit \in 1..MaxLimit : StartSpeculator(limit)
    \/ \E i \in Items : Acquire(i)
    \/ \E i \in Items, outcome \in FetchOutcomes : FetchDone(i, outcome)
    \/ \E i \in Items, raw \in LlmOutcomes : AnalyseDone(i, raw)
    \/ GatherReturn
    \/ GatherRaise
    \/ JoinSpeculator
    \/ GenerateReport
    \/ \E storage \in {"ok", "sqlite_error"} : RunArchive(storage)
    \/ LogSummary

SpecStages == StageInit /\ [][StageNext]_vars

\* ------------------------------------------------------- pipeline claims

C25_AcceptedLinksStored ==
    (p_pc \in {"done", "crashed"} /\ analyses # <<>> /\ ~write_failed)
        => LinksOf(analyses) \subseteq StoredLinks(database)

\* C28 as stated: over any sequence of runs, every link in the store is the
\* link of an item whose page gave text and whose response held is_relevant
\* true in some run.
C28_OnlyAcceptedLinksStored ==
    StoredLinks(database) \subseteq accepted_links

\* ------------------------------------------------------ archivum claims

\* The links of the records of a batch that carry a title.
TitledLinks(results) ==
    { results[i].link : i \in { j \in 1..Len(results) : results[j].title # NoTitle } }

\* C5 as stated: once add_articles_to_archive(records) has returned,
\* filter_new_articles on candidates whose links are all links of those
\* records returns the empty list.
C5_FilterAfterAddIsEmpty ==
    (/\ add_returned
     /\ a_last.op = "filter"
     /\ LinksOf(candidates) \subseteq LinksOf(analysis_results))
        => a_last.outcome = "returned" /\ a_last.result = <<>>

\* C5 amended: once add_articles_to_archive(records) has returned after a
\* committed insert, filter_new_articles whose read succeeds, on candidates
\* whose links are all links of records that carry a title, returns the
\* empty list.
C5_FilterAfterCommittedAddIsEmpty ==
    (/\ add_written
     /\ a_last.op = "filter"
     /\ a_last.storage \in {"ok", "untouched"}
     /\ LinksOf(candidates) \subseteq TitledLinks(analysis_results))
        => a_last.outcome = "returned" /\ a_last.result = <<>>

\* A candidate whose row the batch inserted is filtered out.
C5_Witness ==
    /\ add_written
    /\ a_last.op = "filter"
    /\ a_last.storage = "ok"
    /\ Len(candidates) = 2
    /\ LinksOf(candidates) \subseteq TitledLinks(analysis_results)
    /\ \A i \in 1..Len(candidates) :
          \E row \in store : row.link = candidates[i].link /\ row.reported_at >= 1
    /\ a_last.result = <<>>

\* C6 as stated: recording a record whose link is already stored raises no
\* error and leaves that row's title, score and timestamp as they were;
\* recording a batch again after it was recorded changes nothing; no two
\* rows share a link.
C6_RecordingIsIdempotent ==
    a_last.op = "add" =>
        /\ (analysis_results # <<>> /\ LinksOf(analysis_results) \subseteq StoredLinks(a_before)
               => a_last.outcome = "returned")
        /\ \A row \in a_before : row \in store
        /\ \A r1, r2 \in store : r1.link = r2.link => r1 = r2
        /\ (a_last.storage = "ok" /\ a_last.outcome = "returned"
               => \A t \in 0..MaxClock : ExecuteMany(store, analysis_results, t) = store)

\* C7: when the read succeeds, filter_new_articles returns exactly the
\* candidates whose link is not in the store, in input order, and leaves the
\* store as it was.
C7_FilterReturnsAbsentInOrder ==
    (a_last.op = "filter" /\ a_last.storage \in {"ok", "untouched"}) =>
        /\ a_last.outcome = "returned"
        /\ a_last.result =
             SelectSeq(candidates, LAMBDA c : c.link \notin StoredLinks(a_before))
        /\ store = a_before

\* The scenario of the test: the store holds http://a.com, the candidates
\* are http://a.com and http://c.com, and only http://c.com comes back.
C7_Witness ==
    /\ a_last.op = "filter"
    /\ a_last.storage = "ok"
    /\ StoredLinks(a_before) = {"http://a.com"}
    /\ Len(candidates) = 2
    /\ candidates[1].link = "http://a.com"
    /\ candidates[2].link = "http://c.com"
    /\ Len(a_last.result) = 1
    /\ a_last.result[1].link = "http://c.com"

\* C8 as stated: whenever the read of the store fails, filter_new_articles
\* raises nothing and returns its input unfiltered.
C8_FailOpenOnReadFailure ==
    (a_last.op = "filter" /\ a_last.storage \in {"mkdir_error", "sqlite_error"}) =>
        a_last.outcome = "returned" /\ a_last.result = candidates

\* The positions of a batch whose record is the first one with its link.
FirstWithLink(results) ==
    { i \in 1..Len(results) : \A j \in 1..(i - 1) : results[j].link # results[i].link }

\* The score of a record is absent, null or not convertible to an integer.
BadScore(result) ==
    LET score == Get(result.analysis, "criticality_score")
    IN score = None \/ "int" \notin DOMAIN score

\* C21 as stated: when the write succeeds, add_articles_to_archive raises
\* nothing, and every record of the batch with a title, a link that is not
\* stored yet and an absent, null or unconvertible score gets its row, with
\* its link, its title and a null criticality_score.
C21_BadScoreStoredAsNull ==
    (a_last.op = "add" /\ analysis_results # <<>> /\ a_last.storage \in {"ok", "untouched"}) =>
        /\ a_last.outcome = "returned"
        /\ \A i \in FirstWithLink(analysis_results) :
              (/\ BadScore(analysis_results[i])
               /\ analysis_results[i].title # NoTitle
               /\ analysis_results[i].link \notin StoredLinks(a_before))
                 => \E row \in store :
                       /\ row.link = analysis_results[i].link
                       /\ row.title = analysis_results[i].title
                       /\ row.criticality_score = None

\* C22 as stated: when the connection cannot be established or the insert
\* errors, add_articles_to_archive returns normally.
C22_WriteFailureReturns ==
    (a_last.op = "add" /\ a_last.storage \in {"mkdir_error", "sqlite_error", "insert_error"})
        => a_last.outcome = "returned"

\* C29: when add_articles_to_archive meets a storage error, the store after
\* the call equals the store before the call.
C29_FailedBatchLeavesStore ==
    (a_last.op = "add" /\ a_last.storage \in {"mkdir_error", "sqlite_error", "insert_error"})
        => store = a_before

\* The insert of a batch of two errors; the first record has a title and a
\* link that was not stored, so its row was inserted before the error, and
\* the store holds no row of that link afterwards.
C29_Witness ==
    /\ a_last.op = "add"
    /\ a_last.storage = "insert_error"
    /\ Len(analysis_results) = 2
    /\ analysis_results[1].title # NoTitle
    /\ analysis_results[1].link \notin StoredLinks(a_before)
    /\ ExecuteMany(a_before, SubSeq(analysis_results, 1, 1), now) # a_before
    /\ analysis_results[1].link \notin StoredLinks(store)

\* --------------------------------------------------------- vigil claims

VItems == 1..Len(v_articles)

\* The input dict at position i is one of the returned dicts.
Kept(i) == \E j \in 1..Len(v_result) : v_result[j].id = i

\* Position i is at or above the threshold, has a link, and no earlier
\* position at or above the threshold has the same link.
FirstRelevant(i) ==
    /\ cosine_scores[i] >= similarity_threshold
    /\ v_articles[i].link # ""
    /\ \A j \in VItems :
          j < i /\ cosine_scores[j] >= similarity_threshold
            => v_articles[j].link # v_articles[i].link

\* C9 as stated: on the normal path a candidate is kept iff its similarity
\* is at least the threshold.
C9_KeptIffAtLeastThreshold ==
    v_pc = "normal" =>
        \A i \in VItems : Kept(i) <=> cosine_scores[i] >= similarity_threshold

\* C9 amended: on the normal path a candidate is kept iff its similarity is
\* at least the threshold (s = t included), its link is not empty and no
\* earlier candidate at or above the threshold has the same link.
C9_KeptIffFirstRelevant ==
    v_pc = "normal" => \A i \in VItems : Kept(i) <=> FirstRelevant(i)

\* A candidate exactly on the threshold was kept, and another one at or above
\* the threshold was dropped as a duplicate.
C9_Witness ==
    /\ v_pc = "normal"
    /\ \E i \in VItems : cosine_scores[i] = similarity_threshold /\ Kept(i)
    /\ \E i \in VItems : cosine_scores[i] >= similarity_threshold /\ ~Kept(i)

\* The returned dicts are in input order, each with its own similarity.
OrderedAndScored ==
    /\ \A j, k \in 1..Len(v_result) : j < k => v_result[j].id < v_result[k].id
    /\ \A j \in 1..Len(v_result) :
          /\ HasScore(v_result[j])
          /\ v_result[j].relevance_score = cosine_scores[v_result[j].id]

\* C10 as stated: on the normal path the kept items come in input order,
\* each with relevance_score equal to its similarity, and every input item
\* that is not returned has no relevance_score.
C10_OrderScoresDroppedUnscored ==
    v_pc = "normal" =>
        /\ OrderedAndScored
        /\ \A i \in VItems : ~Kept(i) => ~HasScore(v_articles[i])

\* C10 amended: on the normal path the kept items come in input order, each
\* with relevance_score equal to its similarity; an input item carries a
\* relevance_score afterwards iff its similarity is at least the threshold,
\* so items dropped by the threshold get none, while items dropped as
\* duplicates or for an empty link carry theirs.
C10_OrderScoresThresholdUnscored ==
    v_pc = "normal" =>
        /\ OrderedAndScored
        /\ \A i \in VItems :
              HasScore(v_articles[i]) <=> cosine_scores[i] >= similarity_threshold
        /\ \A i \in VItems :
              HasScore(v_articles[i]) => v_articles[i].relevance_score = cosine_scores[i]

\* The scenario of the test: similarities 0.8, 0.2, 0.5, threshold 0.4, three
\* links; two items come back, scored 0.8 then 0.5.
C10_Witness ==
    /\ v_pc = "normal"
    /\ cosine_scores = <<80, 20, 50>>
    /\ similarity_threshold = 40
    /\ Len(v_articles) = 3
    /\ \A i, j \in VItems : i # j => v_articles[i].link # v_articles[j].link
    /\ \A i \in VItems : v_articles[i].link # ""
    /\ Len(v_result) = 2
    /\ v_result[1].id = 1 /\ v_result[1].relevance_score = 80
    /\ v_result[2].id = 3 /\ v_result[2].relevance_score = 50
    /\ ~HasScore(v_articles[2])

\* The positions at or above the threshold whose link is the given one.
RelevantWithLink(link) ==
    { i \in VItems : cosine_scores[i] >= similarity_threshold /\ v_articles[i].link = link }

\* The least position of a non-empty set of positions.
FirstOf(positions) == CHOOSE i \in positions : \A j \in positions : i <= j

\* Exactly one returned dict has the link, and it is the first input dict at
\* or above the threshold with that link, title included.
OnlyFirstReturned(link) ==
    /\ Cardinality({ j \in 1..Len(v_result) : v_result[j].link = link }) = 1
    /\ \A j \in 1..Len(v_result) :
          v_result[j].link = link =>
              /\ v_result[j].id = FirstOf(RelevantWithLink(link))
              /\ v_result[j].title = v_articles[FirstOf(RelevantWithLink(link))].title

\* C11 as stated: on the normal path, of the candidates at or above the
\* threshold that share a link exactly one is returned, the first in input
\* order.
C11_FirstOfEveryLinkKept ==
    v_pc = "normal" =>
        \A i \in VItems :
            cosine_scores[i] >= similarity_threshold => OnlyFirstReturned(v_articles[i].link)

\* C11 amended: the same for candidates whose shared link is not empty;
\* candidates with an empty link are all discarded.
C11_FirstOfEveryNonEmptyLinkKept ==
    v_pc = "normal" =>
        \A i \in VItems :
            cosine_scores[i] >= similarity_threshold =>
                IF v_articles[i].link # "" THEN OnlyFirstReturned(v_articles[i].link)
                ELSE \A j \in 1..Len(v_result) : v_result[j].link # ""

\* Two candidates at or above the threshold share a link and differ in
\* title; the first is returned and the second is not.
C11_Witness ==
    /\ v_pc = "normal"
    /\ \E i, k \in VItems :
          /\ i < k
          /\ v_articles[i].link = v_articles[k].link
          /\ v_articles[i].link # ""
          /\ v_articles[i].title # v_articles[k].title
          /\ cosine_scores[i] >= similarity_threshold
          /\ cosine_scores[k] >= similarity_threshold
          /\ Kept(i) /\ ~Kept(k)

\* The input dict at position i is returned, or a returned dict has its link.
KeptOrRepresented(i) ==
    \/ \E j \in 1..Len(v_result) : v_result[j].id = i
    \/ \E j \in 1..Len(v_result) : v_result[j].link = v_articles[i].link

\* C30 as stated: on the normal path, every input item with similarity >=
\* threshold is in the output or has the link of an item in the output.
C30_RelevantNeverLost ==
    v_pc = "normal" =>
        \A i \in VItems : cosine_scores[i] >= similarity_threshold => KeptOrRepresented(i)

\* C30 amended: on the normal path, every input item with similarity >=
\* threshold and a non-empty link is in the output or has the link of an
\* item in the output; an item without a link is in no output.
C30_RelevantWithLinkNeverLost ==
    v_pc = "normal" =>
        \A i \in VItems :
            IF v_articles[i].link # ""
            THEN cosine_scores[i] >= similarity_threshold => KeptOrRepresented(i)
            ELSE ~KeptOrRepresented(i)

\* Three relevant items: two share a link, the first of them is returned and
\* stands for the second, which is not; the third, exactly on the
\* threshold, is returned.
C30_Witness ==
    /\ v_pc = "normal"
    /\ Len(v_articles) = 3
    /\ \A i \in VItems : cosine_scores[i] >= similarity_threshold
    /\ v_articles[1].link = v_articles[2].link
    /\ v_articles[1].link # ""
    /\ v_articles[3].link \notin {"", v_articles[1].link}
    /\ cosine_scores[3] = similarity_threshold
    /\ Len(v_result) = 2
    /\ v_result[1].id = 1
    /\ v_result[2].id = 3

\* No two returned dicts have the same link.
NoDuplicateLinks ==
    \A j, k \in 1..Len(v_result) : j # k => v_result[j].link # v_result[k].link

\* C12 as stated: whatever the outcome of filter_articles, the returned list
\* holds no two items with the same link.
C12_NoDuplicateLinksEveryOutcome ==
    v_pc # "call" => NoDuplicateLinks

\* C12 amended: on the normal path the returned list holds no two items with
\* the same link; when the filter fails open it returns its input, repeated
\* links included.
C12_NoDuplicateLinksNormalPath ==
    /\ v_pc = "normal" => NoDuplicateLinks
    /\ v_pc \in {"no_embedding", "load_failed"} =>
          \A i \in VItems : \E j \in 1..Len(v_result) : v_result[j].id = i

\* The normal path returned two items from an input in which a link at or
\* above the threshold is repeated.
C12_Witness ==
    /\ v_pc = "normal"
    /\ Len(v_result) >= 2
    /\ \E i, k \in VItems :
          /\ i # k
          /\ v_articles[i].link = v_articles[k].link
          /\ cosine_scores[i] >= similarity_threshold
          /\ cosine_scores[k] >= similarity_threshold

\* C13: when the project embedding is missing or the model cannot be loaded,
\* filter_articles returns the non-empty input list as it was passed in: the
\* same items in the same order, none of them changed.
C13_FailsOpen ==
    v_pc \in {"no_embedding", "load_failed"} =>
        /\ v_result # <<>>
        /\ Len(v_result) = Len(v_articles)
        /\ \A i \in VItems :
              /\ v_result[i] = v_articles[i]
              /\ v_result[i].id = i
              /\ ~HasScore(v_result[i])

\* The model could not be loaded for an input that the normal path would
\* have cut down, and the whole input came back.
C13_Witness ==
    /\ v_pc = "load_failed"
    /\ Len(v_result) = 3
    /\ \E i \in VItems : cosine_scores[i] < similarity_threshold
    /\ \E i, k \in VItems : i # k /\ v_articles[i].link = v_articles[k].link

\* --------------------------------------------------- one-item claims

\* The response contains a well-formed JSON object, bare or inside a fence,
\* whose is_relevant is true.
ContainsRelevantObject(text) ==
    \E p, q \in 1..Len(text) :
        /\ p < q
        /\ IsJsonObject(SubSeq(text, p, q))
        /\ RelevantValue(SubSeq(text, p + 1, q - 1)) = "true"

\* C14 as stated: given a raw response, the item is accepted iff the response
\* contains a parseable JSON object whose is_relevant is true, and every
\* other response discards it.
C14_AcceptedIffRelevantObject ==
    an_pc \in {"accepted", "discarded"} =>
        (an_pc = "accepted" <=> ContainsRelevantObject(raw_response))

\* --------------------------------------------------- Stage 6 to 8 claims

\* C16: the step that calls add_articles_to_archive, and any step that
\* changes the table, is taken after run_speculator has returned, with no
\* item task between acquiring and releasing a slot and none still waiting;
\* it is the one step from Stage 8 to the summary and writes the whole batch.
C16_WriteOnlyAfterJoin ==
    [][ (database' # database \/ (p_pc = "archive" /\ p_pc' # "archive")) =>
            /\ p_pc = "archive"
            /\ p_pc' = "summary"
            /\ run_pc = "returned"
            /\ InFlight = {}
            /\ \A i \in Items : task[i] \in {"accepted", "discarded"}
            /\ analyses = final_analyses
            /\ database' \in {database, ExecuteMany(database, final_analyses, run)}
      ]_vars

\* Two items were analysed, one accepted and one discarded, and the accepted
\* one was written in this run after the join.
C16_Witness ==
    /\ p_pc = "summary"
    /\ run_pc = "returned"
    /\ Len(articles) >= 2
    /\ \E i \in Items : task[i] = "discarded"
    /\ \E row \in database : row.reported_at = run /\ row.link \in LinksOf(final_analyses)

\* -------------------------------------------------------- utils claims

\* C18: whatever the order of the calls, the verified context is built at
\* most once, the global is never replaced once set, and every call that has
\* returned a verified result returned that one context.
C18_OneVerifiedContext ==
    /\ contexts_built <= 1
    /\ contexts_built = 1 => secure_ssl_context = [context |-> 1]
    /\ \A c \in SslCallers :
          ssl_calls[c].pc \in {"returning", "done"} /\ ssl_calls[c].result # Unverified
              => ssl_calls[c].result = [context |-> 1]

\* Two calls have returned a verified result, and it is the same context.
C18_Witness ==
    /\ Len(ssl_calls) >= 2
    /\ \A c \in SslCallers : ssl_calls[c].pc = "done"
    /\ ssl_calls[1].result = ssl_calls[2].result
    /\ ssl_calls[1].result = [context |-> 1]
    /\ contexts_built = 1

\* Some configured skip string is a substring of the url's host.
HostMatchesSkipList(url, skips) ==
    url.parses /\ \E k \in 1..Len(skips) : Contains(Hostname(url), skips[k])

\* C19 as stated: a call returns the unverified signal iff the url's host
\* contains a configured skip string, and the verified context otherwise.
C19_UnverifiedIffHostMatches ==
    \A c \in SslCallers :
        ssl_calls[c].pc = "done" =>
            /\ ssl_calls[c].result = Unverified
                  <=> HostMatchesSkipList(ssl_calls[c].url, domains_to_skip)
            /\ ssl_calls[c].result # Unverified => ssl_calls[c].result = secure_ssl_context

\* ------------------------------------------------- model cache claims

\* C20: a request constructs a model only when the cache is empty or holds a
\* model of another name; a request that returns returns a model of the
\* requested name; and a request that follows a successful request for the
\* same name constructs nothing and returns the same instance.
C20_ReloadOnlyOnNameChange ==
    /\ last_request # None =>
          /\ last_request.attempted =>
                \/ last_request.cache_before = None
                \/ last_request.cache_before.name # last_request.model_name
          /\ ~last_request.raised =>
                /\ last_request.result = model_cache
                /\ last_request.result.name = last_request.model_name
          /\ ~last_request.attempted => models_built = last_request.built_before
    /\ (prev_request # None /\ ~prev_request.raised
           /\ prev_request.model_name = last_request.model_name) =>
          /\ ~last_request.attempted
          /\ ~last_request.raised
          /\ last_request.result = prev_request.result
          /\ models_built = last_request.built_before

\* A model was constructed, the next request for the same name reused it,
\* and an earlier request for the other name had made the cache reload.
C20_Witness ==
    /\ model_requests >= 3
    /\ models_built = 2
    /\ prev_request # None
    /\ prev_request.attempted /\ ~prev_request.raised
    /\ prev_request.cache_before # None
    /\ last_request.model_name = prev_request.model_name
    /\ ~last_request.attempted
    /\ last_request.result = prev_request.result

====
